---- MODULE Spec2Model ----
(***************************************************************************)
(* A model of coralpages: the rendering pass (renderer/renderedpage.rs),   *)
(* the store federation (store/factory.rs) over file-backed stores         *)
(* (store/file.rs) and the in-memory cache (cache/inmem.rs).               *)
(*                                                                         *)
(* Strings are sequences of symbols.  The separators "/" and "|" and the   *)
(* suffix ".yaml" are symbols of their own; every other symbol stands for  *)
(* a run of characters that holds no separator.                            *)
(***************************************************************************)
EXTENDS Integers, Sequences, FiniteSets, TLC

VARIABLES
    \* ---- rendering pass --------------------------------------------------
    page,            \* the Page handed to render_page: a forest of elements
    debug,           \* the debug argument the caller hands to render_page
    ctx,             \* the context the caller hands to render_page
    config,          \* CONFIG_MANAGER.config: the process-wide Config
    stack,           \* the chain of active render_element calls, innermost last
    rendered_body,   \* RenderedingPageData::render: the local rendered_body
    next_root,       \* RenderedingPageData::render: position in page.children
    rendered_page,   \* RenderedingPageData.rendered_page
    returned,        \* what render_page has returned to its caller, if anything
    render_log,      \* history: what each render_widget call was given and gave
    \* ---- store federation ------------------------------------------------
    stores,          \* StoreFactory.stores: store name -> backend
    call,            \* the federation call made and what it returned
    \* ---- in-memory cache -------------------------------------------------
    cache,           \* InMemCache.cache: key -> value
    cache_call,      \* the last cache operation and what it returned
    cache_hist,      \* history: per key, the last set or delete made
    \* ---- process-wide cache handle ---------------------------------------
    CACHE,           \* the static CACHE: the backend the handle points to
    backends,        \* every cache backend made so far, by number
    redis,           \* the redis server's keys, by url
    handle,          \* per task: the Arc it got from cache(), if any
    swap_hist,       \* history: the cache(), set_cache and backend calls made
    \* ---- url_context -----------------------------------------------------
    url_task,        \* per task: where its url_context call stands
    http_log,        \* history: the HTTP requests made and what came back
    url_calls,       \* history: the url_context calls that returned
    \* ---- CSS emission ----------------------------------------------------
    css_out,         \* what get_css returned for the page render_page returned
    first_call,      \* the body and CSS of an earlier call with the same inputs
    \* ---- id normalization ------------------------------------------------
    fixed,           \* what Page::fix returned for page, if it was called
    \* ---- configuration manager -------------------------------------------
    cfg_file,        \* what the configuration file holds
    cfg_lock,        \* the RwLock around Config: its writer and its readers
    cfg_writer,      \* main's load_config, then the watcher task: where it stands
    cfg_reader,      \* a task that called get_config: the fields it has read
    cfg_last,        \* history: the last load or watcher event and the Config then
    cfg_installed,   \* history: the configurations assigned under the write lock
    cfg_events,      \* history: number of loads and watcher events so far
    \* ---- restart manager -------------------------------------------------
    rst_pc,          \* where run_with_restart stands in its loop
    rst_notify,      \* restart_notify: the permits stored and the waiter's state
    rst_servers,     \* the server tasks spawned so far, in order
    rst_signals,     \* history: number of SIGHUPs delivered
    rst_since,       \* history: deliveries that found no waiter, since the last restart
    rst_taken,       \* history: the restarts taken: how many, the deliveries they used up, the last one
    rst_log,         \* history: what run_with_restart did, in order
    \* ---- PDF export ------------------------------------------------------
    pdf              \* render_pdf: the files under temp_dir, the working directory, the calls

renderVars == <<page, debug, ctx, config, stack, rendered_body, next_root,
                rendered_page, returned, render_log>>
storeVars  == <<stores, call>>
cacheVars  == <<cache, cache_call, cache_hist>>
swapVars   == <<CACHE, backends, redis, handle, swap_hist>>
\* The variables added to the three groups above.
urlVars    == <<url_task, http_log, url_calls>>
cssVars    == <<css_out, first_call>>
fixVars    == <<fixed>>
cfgVars    == <<cfg_file, cfg_lock, cfg_writer, cfg_reader, cfg_last,
                cfg_installed, cfg_events>>
rstHist    == <<rst_signals, rst_since, rst_taken>>
rstVars    == <<rst_pc, rst_notify, rst_servers, rstHist, rst_log>>
pdfVars    == <<pdf>>
lateVars   == <<cssVars, fixVars, cfgVars, rstVars, pdfVars>>
extVars    == <<swapVars, urlVars, lateVars>>
vars       == <<renderVars, storeVars, cacheVars, extVars>>
\* Everything but one group.
notSwapVars == <<renderVars, storeVars, cacheVars, urlVars, lateVars>>
notUrlVars  == <<renderVars, storeVars, cache_call, cache_hist, swapVars,
                 lateVars>>

(***************************************************************************)
(* Bounds of the model.                                                    *)
(***************************************************************************)
MaxNodes   == 3     \* elements of a page
MaxPathLen == 5     \* symbols of a path handed to the federation
MaxOffset  == 1     \* offset of a listing
MaxLimit   == 2     \* limit of a listing
MaxCacheOps == 5    \* cache operations of one run
MaxSwapOps == 5     \* calls made around the process-wide cache handle
MaxUrlCalls == 2    \* url_context calls of one run
MaxCssNodes == 2    \* elements of a page whose CSS is emitted
MaxCfgEvents == 3   \* load_config calls and watcher events of one run
MaxRestarts == 3    \* SIGHUPs delivered in one run

(***************************************************************************)
(* Strings.                                                                *)
(***************************************************************************)
None == [some |-> FALSE]
Some(v) == [some |-> TRUE, value |-> v]

Ok(v) == [ok |-> TRUE, value |-> v]
Err(e) == [ok |-> FALSE, error |-> e]

\* The position of the first occurrence of symbol c in s, 0 when absent.
RECURSIVE IndexFrom(_, _, _)
IndexFrom(s, c, i) ==
    IF i > Len(s) THEN 0
    ELSE IF s[i] = c THEN i
    ELSE IndexFrom(s, c, i + 1)

IndexOf(s, c) == IndexFrom(s, c, 1)

\* str::split(sep): the pieces between the occurrences of sep, in order; a
\* string without sep is its own single piece.
RECURSIVE Split(_, _)
Split(s, sep) ==
    LET i == IndexOf(s, sep)
    IN  IF i = 0 THEN <<s>>
        ELSE <<SubSeq(s, 1, i - 1)>> \o Split(SubSeq(s, i + 1, Len(s)), sep)

\* Every string of at most n symbols over the alphabet A.
RECURSIVE StringsUpTo(_, _)
StringsUpTo(A, n) ==
    IF n = 0 THEN {<<>>}
    ELSE LET shorter == StringsUpTo(A, n - 1)
         IN  shorter \cup {Append(s, c) : s \in shorter, c \in A}

\* The concatenation of a sequence of sequences.
RECURSIVE Flatten(_)
Flatten(ss) ==
    IF ss = <<>> THEN <<>> ELSE Head(ss) \o Flatten(Tail(ss))

(***************************************************************************)
(* File store (store/file.rs).  A backend is a record                      *)
(*   [path, has_widgets, has_pages, widgets, files]                        *)
(* where widgets maps a widget name to its Widget and files maps the path  *)
(* of each file the store can see to its content: a page, or text that is  *)
(* not a page (serde_yaml fails on it).                                    *)
(***************************************************************************)
Yaml == ".yaml"

PageFile(p) == [valid |-> TRUE, page |-> p]
BrokenFile  == [valid |-> FALSE]

\* Path::join: a relative path is put below base, an absolute one replaces it.
PathJoin(base, rel) ==
    IF rel # <<>> /\ rel[1] = "/" THEN rel
    ELSE IF base = <<>> \/ base[Len(base)] = "/" THEN base \o rel
    ELSE base \o <<"/">> \o rel

\* Path::new(&self.path).join(format!("{}.yaml", path))
FileName(store, path) == PathJoin(store.path, Append(path, Yaml))

FileStore_load_widget_definition(store, path) ==
    IF ~store.has_widgets THEN Ok(None)
    ELSE IF path \in DOMAIN store.widgets THEN Ok(Some(store.widgets[path]))
    ELSE Ok(None)

FileStore_load_page_definition(store, path) ==
    IF ~store.has_pages THEN Ok(None)
    ELSE IF FileName(store, path) \notin DOMAIN store.files THEN Ok(None)
    ELSE IF ~store.files[FileName(store, path)].valid THEN Err("YamlError")
    ELSE Ok(Some(store.files[FileName(store, path)].page))

\* The backend after save_page_definition(path, p): File::create truncates or
\* creates the file, to_writer fills it.
FileStore_save_page_definition(store, path, p) ==
    IF ~store.has_pages THEN store
    ELSE [store EXCEPT !.files =
            [f \in DOMAIN store.files \cup {FileName(store, path)} |->
                IF f = FileName(store, path) THEN PageFile(p)
                ELSE store.files[f]]]

\* [result, store]: the answer of delete_page_definition(path) and the backend
\* after it.
FileStore_delete_page_definition(store, path) ==
    IF ~store.has_pages THEN [result |-> Ok(FALSE), store |-> store]
    ELSE IF FileName(store, path) \in DOMAIN store.files
    THEN [result |-> Ok(TRUE),
          store  |-> [store EXCEPT !.files =
                        [f \in DOMAIN store.files \ {FileName(store, path)} |->
                            store.files[f]]]]
    ELSE [result |-> Ok(FALSE), store |-> store]

(***************************************************************************)
(* Store federation (store/factory.rs).  Every operation is a function of  *)
(* the stores map sts and yields [result, calls, stores]: the answer, the  *)
(* backend calls made (in order) and the stores map afterwards.            *)
(***************************************************************************)
BackendCall(name, op, local_path) ==
    [store |-> name, op |-> op, local_path |-> local_path]

\* The position of the last occurrence of symbol c in s, 0 when absent.
RECURSIVE LastIndexFrom(_, _, _)
LastIndexFrom(s, c, i) ==
    IF i = 0 THEN 0
    ELSE IF s[i] = c THEN i
    ELSE LastIndexFrom(s, c, i - 1)

StoreFactory_split_path_Last(path) ==
    LET i == LastIndexFrom(path, "/", Len(path))
    IN  IF i = 0 THEN Err("InvalidPath")
        ELSE Ok([store   |-> SubSeq(path, 1, i - 1),
                 subpath |-> SubSeq(path, i + 1, Len(path))])

StoreFactory_split_path(path) ==
    LET i == IndexOf(path, "/")
    IN  IF i = 0 THEN Err("InvalidPath")
        ELSE Ok([store   |-> SubSeq(path, 1, i - 1),
                 subpath |-> SubSeq(path, i + 1, Len(path))])

StoreFactory_get_store(sts, name) ==
    IF name \in DOMAIN sts THEN Some(sts[name]) ELSE None

StoreFactory_load_widget_definition(sts, path) ==
    LET sp == StoreFactory_split_path(path)
    IN  IF ~sp.ok THEN [result |-> sp, calls |-> <<>>, stores |-> sts]
        ELSE LET store == StoreFactory_get_store(sts, sp.value.store)
             IN  IF store.some
                 THEN [result |-> FileStore_load_widget_definition(
                                      store.value, sp.value.subpath),
                       calls  |-> <<BackendCall(sp.value.store,
                                       "load_widget_definition",
                                       sp.value.subpath)>>,
                       stores |-> sts]
                 ELSE [result |-> Err("StoreNotFound"),
                       calls |-> <<>>, stores |-> sts]

\* The loop of load_page_definition over the listed store names.
RECURSIVE LoadPageFrom(_, _, _, _)
LoadPageFrom(sts, names, subpath, calls) ==
    IF names = <<>>
    THEN [result |-> Err("PageNotFound"), calls |-> calls, stores |-> sts]
    ELSE LET store == StoreFactory_get_store(sts, Head(names))
         IN  IF ~store.some
             THEN LoadPageFrom(sts, Tail(names), subpath, calls)
             ELSE LET p == FileStore_load_page_definition(store.value, subpath)
                      cs == Append(calls, BackendCall(Head(names),
                                       "load_page_definition", subpath))
                  IN  IF ~p.ok
                      THEN [result |-> p, calls |-> cs, stores |-> sts]
                      ELSE IF p.value.some
                      THEN [result |-> p, calls |-> cs, stores |-> sts]
                      ELSE LoadPageFrom(sts, Tail(names), subpath, cs)

StoreFactory_load_page_definition_NoFallback(sts, path) ==
    LET sp == StoreFactory_split_path(path)
    IN  IF ~sp.ok THEN [result |-> sp, calls |-> <<>>, stores |-> sts]
        ELSE LoadPageFrom(sts, <<sp.value.store>>, sp.value.subpath, <<>>)

StoreFactory_load_page_definition(sts, path) ==
    LET sp == StoreFactory_split_path(path)
    IN  IF ~sp.ok THEN [result |-> sp, calls |-> <<>>, stores |-> sts]
        ELSE LoadPageFrom(sts, Split(sp.value.store, "|"),
                          sp.value.subpath, <<>>)

StoreFactory_save_page_definition(sts, path, p) ==
    LET sp == StoreFactory_split_path(path)
    IN  IF ~sp.ok THEN [result |-> sp, calls |-> <<>>, stores |-> sts]
        ELSE LET store == StoreFactory_get_store(sts, sp.value.store)
             IN  IF store.some
                 THEN [result |-> Ok("saved"),
                       calls  |-> <<BackendCall(sp.value.store,
                                       "save_page_definition",
                                       sp.value.subpath)>>,
                       stores |-> [sts EXCEPT ![sp.value.store] =
                                      FileStore_save_page_definition(
                                          store.value, sp.value.subpath, p)]]
                 ELSE [result |-> Err("StoreNotFound"),
                       calls |-> <<>>, stores |-> sts]

StoreFactory_delete_page_definition(sts, path) ==
    LET sp == StoreFactory_split_path(path)
    IN  IF ~sp.ok THEN [result |-> sp, calls |-> <<>>, stores |-> sts]
        ELSE LET store == StoreFactory_get_store(sts, sp.value.store)
             IN  IF store.some
                 THEN LET d == FileStore_delete_page_definition(
                                   store.value, sp.value.subpath)
                      IN  [result |-> d.result,
                           calls  |-> <<BackendCall(sp.value.store,
                                           "delete_page_definition",
                                           sp.value.subpath)>>,
                           stores |-> [sts EXCEPT ![sp.value.store] = d.store]]
                 ELSE [result |-> Err("StoreNotFound"),
                       calls |-> <<>>, stores |-> sts]

(***************************************************************************)
(* Pages.  A page is [n, parent, elem]: elements 1..n numbered in document *)
(* order, parent[k] the element that holds k (0: the page itself), elem[k] *)
(* the Element's own fields.  children lists are in document order.        *)
(***************************************************************************)
RECURSIVE AncestorsOrSelf(_, _)
AncestorsOrSelf(parent, k) ==
    IF k = 0 THEN {0} ELSE {k} \cup AncestorsOrSelf(parent, parent[k])

\* Document order: each element follows its parent, and opens either below
\* the element before it or below one of that element's ancestors.
IsForest(n, parent) ==
    \A k \in 1..n :
        parent[k] \in (IF k = 1 THEN {0} ELSE AncestorsOrSelf(parent, k - 1))

\* Element.children (page.children for k = 0), as element numbers.
Children(p, k) ==
    SelectSeq([i \in 1..p.n |-> i], LAMBDA i : p.parent[i] = k)

\* The elements of the subtrees of the listed elements, each subtree's
\* descendants before its root, the subtrees left to right.
RECURSIVE PostOrder(_, _)
PostOrder(p, ks) ==
    IF ks = <<>> THEN <<>>
    ELSE PostOrder(p, Children(p, Head(ks))) \o <<Head(ks)>>
            \o PostOrder(p, Tail(ks))

IsPrefix(s, t) == Len(s) <= Len(t) /\ s = SubSeq(t, 1, Len(s))

(***************************************************************************)
(* Templates.  A rendered fragment is a sequence of tokens.  The widgets   *)
(* are those of the renderer's test store (renderer/tests.rs): text prints *)
(* one tag carrying data.id, columns wraps context.children|join('') in a  *)
(* div, invalid_template reads an attribute of an undefined variable.      *)
(***************************************************************************)
TestWidget(name) ==
    [name |-> name, html |-> name[1],
     css  |-> <<"css", name[1]>>]

TestWidgetNames == {<<"text">>, <<"columns">>, <<"invalid_template">>}

TestStore ==
    [path |-> <<"test">>, has_widgets |-> TRUE, has_pages |-> FALSE,
     widgets |-> [w \in TestWidgetNames |-> TestWidget(w)],
     files |-> <<>>]

\* template.render(ctx) for the widget's html, with data.id and
\* context.children.
Template_render(html, id, children) ==
    CASE html = "text"    -> Ok(<< <<"a", id>> >>)
      [] html = "columns" ->
            Ok(<< <<"div", id>> >> \o Flatten(children) \o << <<"/div", id>> >>)
      [] html = "children" -> Ok(Flatten(children))
      [] OTHER            -> Err("TemplateError")

\* The fragment that stands for an element whose rendering failed.
ErrorFragment(e) == << <<"pre style=\"color:red;\"", <<e>>>> >>

\* css_variables.insert(key, value)
Insert(map, key, value) ==
    [k \in DOMAIN map \cup {key} |-> IF k = key THEN value ELSE map[k]]

\* The orders in which a HashMap's iter() can yield the entries of keys.
IterOrders(keys) ==
    {o \in [1..Cardinality(keys) -> keys] :
        \A k \in keys : \E i \in DOMAIN o : o[i] = k}

\* element.style.iter().map(|(k, v)| format!("{}: {};", k, v)).join("\n"),
\* the entries yielded in the order style_order.
StyleCss(style, style_order) ==
    [i \in 1..Len(style_order) |-> <<style_order[i], ":", style[style_order[i]], ";">>]

\* render_widget: [result, css_variables]; style_order is the order in which
\* element.style yields its entries.
RenderWidget(widget, element, children, css_variables, style_order) ==
    LET r == Template_render(widget.html, element.id, children)
    IN  IF ~r.ok
        THEN [result |-> r, css_variables |-> css_variables]
        ELSE LET css1 == Insert(css_variables, <<"--", widget.name>>, widget.css)
                 css2 == IF element.id # <<>> /\ element.style # <<>>
                         THEN Insert(css1, <<"#", element.id>>,
                                     StyleCss(element.style, style_order))
                         ELSE css1
             IN  [result |-> r, css_variables |-> css2]

ResolveWidget_Lenient(sts, path) ==
    LET w == StoreFactory_load_widget_definition(sts, path).result
    IN  IF ~w.ok THEN w
        ELSE IF w.value.some THEN Ok(w.value.value)
        ELSE Ok([name |-> <<"missing">>, html |-> "missing", css |-> <<>>])

\* render_element, lines 104-108: the widget of the element, or the error
\* that ends the call.
ResolveWidget(sts, path) ==
    LET w == StoreFactory_load_widget_definition(sts, path).result
    IN  IF ~w.ok THEN w
        ELSE IF w.value.some THEN Ok(w.value.value)
        ELSE Err("WidgetNotFound")

PushChild_Front(children, rendered_child) == <<rendered_child>> \o children

\* children.push(rendered_child)
PushChild(children, rendered_child) == Append(children, rendered_child)

\* config::get_debug()
get_debug == config.debug

NewRenderedPage ==
    [body |-> <<>>, css_variables |-> <<>>, errors |-> <<>>]

NotReturned == [done |-> FALSE]

(***************************************************************************)
(* The rendering pass (renderer/renderer.rs, renderer/renderedpage.rs).    *)
(* render_element awaits the widget lookup, each child and get_debug, so   *)
(* the steps of a pass interleave with a reload of the configuration.      *)
(***************************************************************************)
Frame(k, widget, element_ctx) ==
    [node |-> k, widget |-> widget, ctx |-> element_ctx,
     children |-> <<>>, next |-> 1]

Top == stack[Len(stack)]

Rendering == ~returned.done

\* The call ends with error e: the ? operators unwind every active
\* render_element, render and render_page; the RenderedPage is dropped.
Abort(e) ==
    /\ returned' = [done |-> TRUE, ok |-> FALSE, error |-> e]
    /\ stack' = <<>>

\* The context render_element hands on to the children of the element it
\* renders: self.render_element(child, &ctx).
ChildContext(frame) == frame.ctx

\* render_element is called for element k: it resolves the widget first.
Enter(k) ==
    LET w == ResolveWidget(stores, page.elem[k].widget)
    IN  IF w.ok
        THEN /\ stack' = Append(stack, Frame(k, w.value,
                               IF stack = <<>> THEN ctx
                               ELSE ChildContext(Top)))
             /\ UNCHANGED <<returned, render_log>>
        ELSE /\ Abort(w.error)
             /\ render_log' = Append(render_log,
                    [kind |-> "lookup", node |-> k, error |-> w.error])

\* render, lines 82-85: the next element of page.children.
RenderRoot ==
    /\ Rendering
    /\ stack = <<>>
    /\ next_root <= Len(Children(page, 0))
    /\ Enter(Children(page, 0)[next_root])
    /\ UNCHANGED <<ctx, page, debug, config, rendered_body, next_root, rendered_page>>
    /\ UNCHANGED <<storeVars, cacheVars, extVars>>

\* render_element, lines 112-114: the next child of the innermost element.
RenderChild ==
    /\ Rendering
    /\ stack # <<>>
    /\ Top.next <= Len(Children(page, Top.node))
    /\ Enter(Children(page, Top.node)[Top.next])
    /\ UNCHANGED <<ctx, page, debug, config, rendered_body, next_root, rendered_page>>
    /\ UNCHANGED <<storeVars, cacheVars, extVars>>

\* render_element returns text for the innermost element: its caller pushes
\* it to its children (render_element, line 115) or to the body (render,
\* line 84).
Return(text) ==
    IF Len(stack) > 1
    THEN /\ stack' = [SubSeq(stack, 1, Len(stack) - 1) EXCEPT
                        ![Len(stack) - 1].children =
                            PushChild(@, text),
                        ![Len(stack) - 1].next = @ + 1]
         /\ UNCHANGED <<rendered_body, next_root>>
    ELSE /\ stack' = <<>>
         /\ rendered_body' = rendered_body \o text
         /\ next_root' = next_root + 1

\* render_element, lines 117-138: every child is rendered; the element's own
\* template runs, and a failure is answered by the debug flag.
RenderOwn ==
    /\ Rendering
    /\ stack # <<>>
    /\ Top.next > Len(Children(page, Top.node))
    /\ \E style_order \in IterOrders(DOMAIN page.elem[Top.node].style) :
       LET r == RenderWidget(Top.widget, page.elem[Top.node], Top.children,
                             rendered_page.css_variables, style_order)
           event == [kind |-> "widget", node |-> Top.node, ctx |-> Top.ctx,
                     children |-> Top.children, result |-> r.result,
                     text |-> None]
       IN  IF r.result.ok
           THEN /\ rendered_page' =
                      [rendered_page EXCEPT !.css_variables = r.css_variables]
                /\ Return(r.result.value)
                /\ render_log' = Append(render_log,
                      [event EXCEPT !.text = Some(r.result.value)])
                /\ UNCHANGED returned
           ELSE IF get_debug
           THEN /\ rendered_page' =
                      [rendered_page EXCEPT
                          !.errors = Append(@, r.result.error)]
                /\ Return(ErrorFragment(r.result.error))
                /\ render_log' = Append(render_log,
                      [event EXCEPT !.text = Some(ErrorFragment(r.result.error))])
                /\ UNCHANGED returned
           ELSE /\ Abort(r.result.error)
                /\ render_log' = Append(render_log, event)
                /\ UNCHANGED <<rendered_page, rendered_body, next_root>>
    /\ UNCHANGED <<ctx, page, debug, config>>
    /\ UNCHANGED <<storeVars, cacheVars, extVars>>

\* render, lines 87-96, and render_page's Ok(rendered_page).
RenderDone ==
    /\ Rendering
    /\ stack = <<>>
    /\ next_root > Len(Children(page, 0))
    /\ rendered_page' = [rendered_page EXCEPT !.body = rendered_body]
    /\ returned' = [done |-> TRUE, ok |-> TRUE, page |-> rendered_page']
    /\ UNCHANGED <<ctx, page, debug, config, stack, rendered_body, next_root,
                   render_log>>
    /\ UNCHANGED <<storeVars, cacheVars, extVars>>

\* The watcher's reload_config_static (or load_config) installs a freshly
\* parsed Config; a reload that fails to read or parse changes nothing.
ReloadConfig ==
    /\ \E new_debug \in BOOLEAN :
          /\ new_debug # config.debug
          /\ config' = [config EXCEPT !.debug = new_debug]
    /\ UNCHANGED <<ctx, page, debug, stack, rendered_body, next_root,
                   rendered_page, returned, render_log>>
    /\ UNCHANGED <<storeVars, cacheVars, extVars>>

\* The widgets an element of a page may name: the three the test store
\* provides and one it does not.
ElementWidgets ==
    {<<"test", "/">> \o w : w \in TestWidgetNames \cup {<<"nope">>}}

ElementId(k) == <<"e" \o ToString(k)>>

PagesOfSize(n) ==
    { [n |-> n, parent |-> parent,
       elem |-> [k \in 1..n |->
                   [id |-> ElementId(k), widget |-> widget[k], style |-> <<>>]]] :
        parent \in {q \in [1..n -> 0..(n - 1)] : IsForest(n, q)},
        widget \in [1..n -> ElementWidgets] }

Pages == UNION {PagesOfSize(n) : n \in 0..MaxNodes}

\* The federation of the renderer: one store, test.
RenderStores == <<"test">> :> TestStore

IdleCall == [op |-> "none"]
IdleCache == <<>>
IdleCacheCall == [op |-> "none"]

CacheIdle == cache = IdleCache /\ cache_call = IdleCacheCall /\ cache_hist = <<>>

\* The tasks that use the cache, and the one url a redis server answers at.
Tasks == {"t1", "t2"}
RedisUrl == "redis://r"

\* Lazy::new(|| RwLock::new(Arc::new(InMemCache::new()))): the process has
\* the cache it starts with, and no task holds a handle.
SwapIdle ==
    /\ CACHE = 1
    /\ backends = <<[kind |-> "inmem", cache |-> <<>>]>>
    /\ redis = (RedisUrl :> <<>>)
    /\ handle = [t \in Tasks |-> None]
    /\ swap_hist = <<>>

IdleTask == [pc |-> "idle"]

\* No url_context call was made.
UrlIdle ==
    /\ url_task = [t \in Tasks |-> IdleTask]
    /\ http_log = <<>>
    /\ url_calls = <<>>

\* get_css was not called.
CssIdle == css_out = None /\ first_call = None

\* Page::fix was not called.
FixIdle == fixed = None

\* The configuration was loaded by nobody and nobody reads it.
CfgIdle ==
    /\ cfg_file = [kind |-> "missing"]
    /\ cfg_lock = [writer |-> FALSE, readers |-> 0]
    /\ cfg_writer = [pc |-> "idle"]
    /\ cfg_reader = [pc |-> "idle"]
    /\ cfg_last = None
    /\ cfg_installed = <<>>
    /\ cfg_events = 0

\* run_with_restart was not called.
RstIdle ==
    /\ rst_pc = "idle"
    /\ rst_notify = [permits |-> 0, waiter |-> "none"]
    /\ rst_servers = <<>>
    /\ rst_signals = 0
    /\ rst_since = 0
    /\ rst_taken = [n |-> 0, used |-> 0, last |-> None]
    /\ rst_log = <<>>

\* render_pdf was not called: temp_dir does not exist and the process is in
\* the directory it was started in.
EmptyTemp == [dir |-> FALSE, html |-> None, out |-> None]

PdfIdle ==
    pdf = [fs |-> EmptyTemp, cwd |-> "home",
           task |-> [t \in Tasks |-> IdleTask], done |-> <<>>]

LateIdle == CssIdle /\ FixIdle /\ CfgIdle /\ RstIdle /\ PdfIdle

ExtIdle == SwapIdle /\ UrlIdle /\ LateIdle

RenderInit ==
    /\ page \in Pages
    /\ debug \in BOOLEAN
    /\ ctx = <<>>
    /\ config \in {[debug |-> b] : b \in BOOLEAN}
    /\ stack = <<>>
    /\ rendered_body = <<>>
    /\ next_root = 1
    /\ rendered_page = NewRenderedPage
    /\ returned = NotReturned
    /\ render_log = <<>>
    /\ stores = RenderStores
    /\ call = IdleCall
    /\ CacheIdle
    /\ ExtIdle

RenderNext ==
    \/ RenderRoot
    \/ RenderChild
    \/ RenderOwn
    \/ RenderDone
    \/ ReloadConfig

SpecRender == RenderInit /\ [][RenderNext]_vars

(***************************************************************************)
(* Properties of the rendering pass.                                       *)
(***************************************************************************)
WidgetEvents == SelectSeq(render_log, LAMBDA ev : ev.kind = "widget")
LookupEvents == SelectSeq(render_log, LAMBDA ev : ev.kind = "lookup")
FailedWidgetEvents == SelectSeq(WidgetEvents, LAMBDA ev : ~ev.result.ok)

RenderOrder == [i \in 1..Len(WidgetEvents) |-> WidgetEvents[i].node]

Rendered(k) == \E i \in 1..Len(WidgetEvents) : WidgetEvents[i].node = k

\* What render_element returned for element k.
TextOf(k) ==
    LET i == CHOOSE j \in 1..Len(WidgetEvents) : WidgetEvents[j].node = k
    IN  WidgetEvents[i].text.value

TextsOf(ks) == [i \in 1..Len(ks) |-> TextOf(ks[i])]

\* The fragment of element k when every template renders, read off the page.
RECURSIVE Expected(_, _)
Expected(p, k) ==
    LET kids == Children(p, k)
        html == p.elem[k].widget[3]
    IN  Template_render(html, p.elem[k].id,
                        [i \in 1..Len(kids) |-> Expected(p, kids[i])]).value

ReturnedPage == returned.done /\ returned.ok
ReturnedError == returned.done /\ ~returned.ok

\* C1: render_page renders the element tree depth-first.  The templates run
\* in post-order (all children of an element, left to right, before the
\* element itself); each template is handed, as context.children, the
\* fragments returned for its children in child order; the body of a returned
\* page is the concatenation of the top-level fragments in page order, which,
\* when no template failed, is the fragment tree read off the page.
C1_DepthFirst ==
    /\ IsPrefix(RenderOrder, PostOrder(page, Children(page, 0)))
    /\ \A i \in 1..Len(WidgetEvents) :
          WidgetEvents[i].children =
              TextsOf(Children(page, WidgetEvents[i].node))
    /\ ReturnedPage =>
          /\ RenderOrder = PostOrder(page, Children(page, 0))
          /\ returned.page.body = Flatten(TextsOf(Children(page, 0)))
          /\ returned.page.errors = <<>> =>
                returned.page.body =
                    Flatten([i \in 1..Len(Children(page, 0)) |->
                                Expected(page, Children(page, 0)[i])])

\* A page is returned for a columns element that holds two children, one of
\* them a columns element with a child of its own ... or two top-level
\* elements: a parent with two rendered children and a following sibling.
C1_Witness ==
    /\ ReturnedPage
    /\ returned.page.errors = <<>>
    /\ \E k \in 1..page.n :
          /\ Len(Children(page, k)) = 2
          /\ page.elem[k].widget = <<"test", "/", "columns">>
          /\ returned.page.body =
                << <<"div", page.elem[k].id>> >>
                    \o TextOf(Children(page, k)[1])
                    \o TextOf(Children(page, k)[2])
                    \o << <<"/div", page.elem[k].id>> >>

\* A failure the pass met: a widget that did not resolve, or a template that
\* did not render.
Failures ==
    SelectSeq(render_log, LAMBDA ev : ev.kind = "lookup" \/ ~ev.result.ok)

FailureError(ev) == IF ev.kind = "lookup" THEN ev.error ELSE ev.result.error

\* C2: strict mode.  A render_page call with debug = false in which any
\* element fails (widget resolution or template rendering) returns that error
\* and no RenderedPage.
C2_StrictAborts ==
    (returned.done /\ ~debug /\ Failures # <<>>) =>
        /\ ReturnedError
        /\ returned.error = FailureError(Failures[1])

\* C3: debug mode.  A render_page call with debug = true whose only failures
\* are template failures returns a RenderedPage; every failing element's
\* output is the <pre style="color:red;"> fragment and errors holds one entry
\* per failure.
C3_DebugRecovers ==
    (returned.done /\ debug /\ LookupEvents = <<>>) =>
        /\ ReturnedPage
        /\ Len(returned.page.errors) = Len(FailedWidgetEvents)
        /\ \A i \in 1..Len(FailedWidgetEvents) :
              FailedWidgetEvents[i].text =
                  Some(ErrorFragment(FailedWidgetEvents[i].result.error))

\* The page names a widget that no store provides.
HasMissingWidget ==
    \E k \in 1..page.n :
        LET w == StoreFactory_load_widget_definition(stores,
                                                     page.elem[k].widget).result
        IN  w.ok /\ ~w.value.some

\* C4: a page that names a widget no store provides never yields a
\* RenderedPage, whatever the debug argument and the configured debug flag;
\* the element that names it ends the call with the widget-not-found error:
\* it is given no error fragment and no entry in errors.
C4_MissingWidgetFails ==
    /\ (returned.done /\ HasMissingWidget) => ReturnedError
    /\ \A i \in 1..Len(render_log) :
          render_log[i].kind = "lookup" =>
              /\ i = Len(render_log)
              /\ ReturnedError
              /\ returned.error = render_log[i].error
    /\ \A i \in 1..Len(rendered_page.errors) :
          rendered_page.errors[i] # "WidgetNotFound"

\* With debug requested by the caller and set in the configuration, a
\* template failure was recovered inline and a later element's missing widget
\* still ended the call with widget-not-found.
C4_Witness ==
    /\ ReturnedError
    /\ returned.error = "WidgetNotFound"
    /\ debug /\ config.debug
    /\ rendered_page.errors # <<>>

(***************************************************************************)
(* Calls of the federation.  The federation holds two file stores, a and   *)
(* b; a call is made with any path of at most MaxPathLen symbols over the  *)
(* store names and the two separators.                                     *)
(***************************************************************************)
FedStoreNames == {<<"a">>, <<"b">>}

\* A store name is any string of the configuration: this one holds a "|".
PipeName == <<"a", "|", "b">>

\* A store name as one symbol.
Label(name) == IF Len(name) = 1 THEN name[1] ELSE "a|b"

FedAlphabet == {"a", "b", "|", "/"}

FedPaths == StringsUpTo(FedAlphabet, MaxPathLen)

\* The directory of store name.
FedRoot(name) == <<"dir_" \o Label(name)>>

\* The page that store name holds from the start, and the one a call saves.
FedPage(name) == [title |-> <<"page of", Label(name)>>, path |-> <<"a">>]
NewPage == [title |-> <<"new page">>, path |-> <<"a">>]

FedWidget(name, w) ==
    [name |-> w, html |-> "text", css |-> <<"css of", Label(name)>>]

FedBackends(name) ==
    { [path |-> FedRoot(name), has_widgets |-> TRUE, has_pages |-> TRUE,
       widgets |-> [w \in ws |-> FedWidget(name, w)],
       files |-> files] :
        ws \in SUBSET {<<"a">>},
        files \in {<<>>,
                   PathJoin(FedRoot(name), <<"a", Yaml>>) :> PageFile(FedPage(name)),
                   PathJoin(FedRoot(name), <<"a", Yaml>>) :> BrokenFile} }

\* What a store named PipeName holds: pages only, none or page a.
PipeBackends ==
    { [path |-> FedRoot(PipeName), has_widgets |-> FALSE, has_pages |-> TRUE,
       widgets |-> <<>>, files |-> files] :
        files \in {<<>>,
                   PathJoin(FedRoot(PipeName), <<"a", Yaml>>)
                       :> PageFile(FedPage(PipeName))} }

PlainStores ==
    { [name \in FedStoreNames |-> backend[name]] :
        backend \in {f \in [FedStoreNames -> UNION {FedBackends(name) :
                                                     name \in FedStoreNames}] :
                        \A name \in FedStoreNames : f[name] \in FedBackends(name)} }

\* The configured stores: a and b, with or without a store named PipeName.
FedStores ==
    PlainStores \cup { sts @@ (PipeName :> pb) : sts \in PlainStores,
                                                  pb \in PipeBackends }

Called(op, path, r) ==
    /\ call' = [op |-> op, path |-> path, result |-> r.result,
                calls |-> r.calls, before |-> stores]
    /\ stores' = r.stores

CallLoadWidget ==
    /\ call.op = "none"
    /\ \E path \in FedPaths :
          Called("load_widget_definition", path,
                 StoreFactory_load_widget_definition(stores, path))
    /\ UNCHANGED <<renderVars, cacheVars, extVars>>

CallLoadPage ==
    /\ call.op = "none"
    /\ \E path \in FedPaths :
          Called("load_page_definition", path,
                 StoreFactory_load_page_definition(stores, path))
    /\ UNCHANGED <<renderVars, cacheVars, extVars>>

CallSavePage ==
    /\ call.op = "none"
    /\ \E path \in FedPaths :
          Called("save_page_definition", path,
                 StoreFactory_save_page_definition(stores, path, NewPage))
    /\ UNCHANGED <<renderVars, cacheVars, extVars>>

CallDeletePage ==
    /\ call.op = "none"
    /\ \E path \in FedPaths :
          Called("delete_page_definition", path,
                 StoreFactory_delete_page_definition(stores, path))
    /\ UNCHANGED <<renderVars, cacheVars, extVars>>

\* No rendering pass is under way.
RenderIdle ==
    /\ page = [n |-> 0, parent |-> <<>>, elem |-> <<>>]
    /\ debug = FALSE
    /\ ctx = <<>>
    /\ config = [debug |-> FALSE]
    /\ stack = <<>>
    /\ rendered_body = <<>>
    /\ next_root = 1
    /\ rendered_page = NewRenderedPage
    /\ returned = NotReturned
    /\ render_log = <<>>

StoreInit ==
    /\ stores \in FedStores
    /\ call = IdleCall
    /\ RenderIdle
    /\ CacheIdle
    /\ ExtIdle

StoreNext ==
    \/ CallLoadWidget
    \/ CallLoadPage
    \/ CallSavePage
    \/ CallDeletePage

SpecStore == StoreInit /\ [][StoreNext]_vars

(***************************************************************************)
(* Properties of the path-routed federation calls.                         *)
(***************************************************************************)
HasSlash(path) == \E i \in 1..Len(path) : path[i] = "/"

\* The position of the first "/" of a path that holds one.
FirstSlash(path) ==
    CHOOSE i \in 1..Len(path) :
        path[i] = "/" /\ \A j \in 1..(i - 1) : path[j] # "/"

StoreSpecOf(path) == SubSeq(path, 1, FirstSlash(path) - 1)
RestOf(path) == SubSeq(path, FirstSlash(path) + 1, Len(path))

\* What backend name, as it was before the call, holds for local path x:
\* "page" (a readable page), "broken" (a file that is no page) or "none".
Holds(name, x) ==
    LET st == call.before[name]
        f  == PathJoin(st.path, Append(x, Yaml))
    IN  IF ~st.has_pages \/ f \notin DOMAIN st.files THEN "none"
        ELSE IF st.files[f].valid THEN "page" ELSE "broken"

HeldPage(name, x) ==
    call.before[name].files[PathJoin(call.before[name].path, Append(x, Yaml))].page

\* The first of the listed stores that is configured and does not answer
\* None for x; 0 when there is none.
FirstAnswer(names, x) ==
    LET hits == {i \in 1..Len(names) :
                    names[i] \in DOMAIN call.before /\ Holds(names[i], x) # "none"}
    IN  IF hits = {} THEN 0
        ELSE CHOOSE i \in hits : \A j \in hits : i <= j

\* "a|b/x" with a and b two configured stores.
IsTwoStorePath(path, n1, n2) ==
    /\ HasSlash(path)
    /\ n1 \in DOMAIN call.before /\ n2 \in DOMAIN call.before
    /\ StoreSpecOf(path) = n1 \o <<"|">> \o n2

\* C5: load_page_definition tries the listed stores in the listed order and
\* returns the first page found.  It never returns Ok(None); when every
\* listed store answers None it fails with not-found; for "a|b/x" with a
\* answering None the result is b's answer for x.
C5_PageFallback ==
    call.op = "load_page_definition" =>
        /\ call.result # Ok(None)
        /\ HasSlash(call.path) =>
              LET names == Split(StoreSpecOf(call.path), "|")
                  x     == RestOf(call.path)
                  i     == FirstAnswer(names, x)
              IN  /\ i = 0 => call.result = Err("PageNotFound")
                  /\ (i # 0 /\ Holds(names[i], x) = "page") =>
                        call.result = Ok(Some(HeldPage(names[i], x)))
                  /\ (i # 0 /\ Holds(names[i], x) = "broken") => ~call.result.ok
        /\ \A n1, n2 \in DOMAIN call.before :
              (IsTwoStorePath(call.path, n1, n2) /\ Holds(n1, RestOf(call.path)) = "none")
                  => LET b == FileStore_load_page_definition(call.before[n2],
                                                             RestOf(call.path))
                     IN  call.result =
                            (IF b = Ok(None) THEN Err("PageNotFound") ELSE b)

\* load_page_definition("a|b/a") with no page a in store a and one in store b
\* returned b's page, after asking a and then b.
C5_Witness ==
    /\ call.op = "load_page_definition"
    /\ call.path = <<"a", "|", "b", "/", "a">>
    /\ Holds(<<"a">>, <<"a">>) = "none"
    /\ call.result = Ok(Some(FedPage(<<"b">>)))
    /\ call.calls = <<BackendCall(<<"a">>, "load_page_definition", <<"a">>),
                      BackendCall(<<"b">>, "load_page_definition", <<"a">>)>>

\* C6: load_widget_definition("a|b/w") with a and b configured, a answering
\* None for w and b providing w, returns b's widget.
C6_WidgetFallback ==
    call.op = "load_widget_definition" =>
        \A n1, n2 \in DOMAIN call.before :
            LET w == RestOf(call.path)
            IN  ( /\ IsTwoStorePath(call.path, n1, n2)
                  /\ w \notin DOMAIN call.before[n1].widgets
                  /\ w \in DOMAIN call.before[n2].widgets )
                => call.result = Ok(Some(call.before[n2].widgets[w]))

\* The store spec of the path (all of it, when it has no "/") holds a "|".
HasPipeSpec(path) ==
    \E i \in 1..Len(path) :
        path[i] = "|" /\ \A j \in 1..(i - 1) : path[j] # "/"

\* C7: save_page_definition and delete_page_definition with a "|" in the
\* store spec fail and leave every backend's pages as they were.
C7_PipeRejected ==
    (call.op \in {"save_page_definition", "delete_page_definition"}
        /\ HasPipeSpec(call.path)) =>
        /\ ~call.result.ok
        /\ stores = call.before

\* C8: a path without "/" is an invalid-path error and reaches no backend; a
\* path with "/" is split at its first "/" only: every backend call gets the
\* whole remainder as local_path, and a call whose store spec names a
\* configured store reaches exactly that backend.
C8_SplitOnce ==
    call.op # "none" =>
        /\ ~HasSlash(call.path) =>
              /\ call.result = Err("InvalidPath")
              /\ call.calls = <<>>
              /\ stores = call.before
        /\ HasSlash(call.path) =>
              /\ call.result # Err("InvalidPath")
              /\ \A i \in 1..Len(call.calls) :
                    /\ call.calls[i].local_path = RestOf(call.path)
                    /\ call.calls[i].op = call.op
              /\ ( /\ call.op # "load_page_definition"
                    /\ StoreSpecOf(call.path) \in DOMAIN call.before ) =>
                    call.calls = <<BackendCall(StoreSpecOf(call.path), call.op,
                                               RestOf(call.path))>>

\* delete_page_definition("a/a/b") reached backend a with local path "a/b".
C8_Witness ==
    /\ call.op = "delete_page_definition"
    /\ call.path = <<"a", "/", "a", "/", "b">>
    /\ call.calls = <<BackendCall(<<"a">>, "delete_page_definition",
                                  <<"a", "/", "b">>)>>

(***************************************************************************)
(* Page listing (store/file.rs and store/factory.rs get_page_list).        *)
(***************************************************************************)
SatSub(a, b) == IF a >= b THEN a - b ELSE 0

Skip(s, n) == SubSeq(s, n + 1, Len(s))
Take(s, n) == SubSeq(s, 1, IF n < Len(s) THEN n ELSE Len(s))

\* The orders in which the members of set S can be gone through.
Orders(S) ==
    {o \in [1..Cardinality(S) -> S] : \A x \in S : \E i \in DOMAIN o : o[i] = x}

\* HashMap::get on a filter.
FilterGet(filter, key) ==
    IF key \in DOMAIN filter THEN Some(filter[key]) ELSE None

\* The symbols whose first character is "_".
UnderscoreSymbols == {"_t", "_b"}

\* str::starts_with("_")
StartsWithUnderscore(s) == s # <<>> /\ s[1] \in UnderscoreSymbols

\* The files that read_dir(store.path) yields: those directly in the
\* directory.
DirEntries(store) ==
    {f \in DOMAIN store.files :
        /\ Len(f) >= 2
        /\ f[Len(f) - 1] # "/"
        /\ f = PathJoin(store.path, <<f[Len(f) - 1], f[Len(f)]>>)}

PageInfo(id, p) ==
    [id |-> id, store |-> <<>>, title |-> p.title, url |-> <<"/">> \o p.path]

\* The loop of FileStore::get_page_list over the directory entries.
RECURSIVE ListEntries(_, _, _)
ListEntries(store, entries, filter_type) ==
    IF entries = <<>> THEN <<>>
    ELSE LET path_str == Head(entries)
             rest     == ListEntries(store, Tail(entries), filter_type)
             page_id  == SubSeq(path_str, Len(store.path) + 1, Len(path_str) - 1)
             skipped  ==
                 /\ filter_type.some
                 /\ \/ /\ filter_type.value = "template"
                       /\ ~StartsWithUnderscore(path_str)
                    \/ /\ filter_type.value = "page"
                       /\ StartsWithUnderscore(path_str)
             p        == FileStore_load_page_definition(store, page_id)
         IN  IF path_str[Len(path_str)] # Yaml THEN rest
             ELSE IF skipped THEN rest
             ELSE IF ~p.ok THEN rest
             ELSE IF ~p.value.some THEN rest
             ELSE <<PageInfo(page_id, p.value.value)>> \o rest

\* entries is the order in which read_dir yields the directory's files.
FileStore_get_page_list(store, offset, limit, filter, entries) ==
    IF ~store.has_pages THEN [count |-> 0, results |-> <<>>]
    ELSE LET pages == ListEntries(store, entries, FilterGet(filter, "type"))
         IN  [count   |-> Len(pages),
              results |-> Take(Skip(pages, offset), limit)]

SetStore_Keep(r, store_name) == r

\* r.store = store_name.clone()
SetStore(r, store_name) == [r EXCEPT !.store = store_name]

\* The loop of StoreFactory::get_page_list over the stores, gone through in
\* the order names; acc is the result so far with the backend calls made.
RECURSIVE ListStores(_, _, _, _, _, _, _)
ListStores(sts, names, offset, limit, filter, entries, acc) ==
    IF names = <<>> THEN acc
    ELSE LET store_name   == Head(names)
             filter_store == FilterGet(filter, "store")
         IN  IF filter_store.some /\ filter_store.value # store_name
             THEN ListStores(sts, Tail(names), offset, limit, filter, entries, acc)
             ELSE LET store_result ==
                          FileStore_get_page_list(sts[store_name], offset, limit,
                                                  filter, entries[store_name])
                      ret_count == Len(store_result.results)
                  IN  ListStores(sts, Tail(names),
                          SatSub(acc.count, offset),
                          SatSub(limit, ret_count),
                          filter, entries,
                          [count   |-> acc.count + store_result.count,
                           results |-> acc.results \o
                               [i \in 1..ret_count |->
                                   SetStore(store_result.results[i], store_name)],
                           calls   |-> Append(acc.calls,
                               [store |-> store_name, offset |-> offset,
                                limit |-> limit, result |-> store_result])])

StoreFactory_get_page_list(sts, names, offset, limit, filter, entries) ==
    ListStores(sts, names, offset, limit, filter, entries,
               [count |-> 0, results |-> <<>>, calls |-> <<>>])

(***************************************************************************)
(* One listing call on a federation of two file stores.                    *)
(***************************************************************************)
ListPageOf(name, file) ==
    [title |-> <<"page of", Label(name), file>>, path |-> <<file>>]

\* The directories a store can be configured with: with and without the
\* trailing "/", and one whose name starts with "_".
ListRoots(name) ==
    IF name = <<"a">> THEN {<<"dir_a">>, <<"dir_a", "/">>}
    ELSE {<<"dir_b", "/">>, <<"_b", "/">>}

\* The page files a store can hold; x is a file that is no page.
ListFileNames(name) == IF name = <<"a">> THEN {"h", "_t"} ELSE {"h", "x"}

ListBackends(name) ==
    { [path |-> root, has_widgets |-> FALSE, has_pages |-> has_pages,
       widgets |-> <<>>,
       files |-> [f \in {PathJoin(root, <<file, Yaml>>) : file \in present} |->
                     IF f[Len(f) - 1] = "x" THEN BrokenFile
                     ELSE PageFile(ListPageOf(name, f[Len(f) - 1]))]] :
        root \in ListRoots(name),
        has_pages \in IF name = <<"a">> THEN {TRUE} ELSE BOOLEAN,
        present \in SUBSET ListFileNames(name) }

ListFederations ==
    {f \in [FedStoreNames -> UNION {ListBackends(name) : name \in FedStoreNames}] :
        \A name \in FedStoreNames : f[name] \in ListBackends(name)}

Filters ==
    { by_store @@ by_type :
        by_store \in {<<>>} \cup {"store" :> name :
                                     name \in FedStoreNames \cup {<<"c">>}},
        by_type  \in {<<>>} \cup {"type" :> t : t \in {"template", "page"}} }

CallGetPageList ==
    /\ call.op = "none"
    /\ \E offset \in 0..MaxOffset, limit \in 0..MaxLimit, filter \in Filters,
          names \in Orders(DOMAIN stores) :
          \E entries \in [DOMAIN stores -> UNION {Orders(DirEntries(stores[n])) :
                                                     n \in DOMAIN stores}] :
              /\ \A n \in DOMAIN stores : entries[n] \in Orders(DirEntries(stores[n]))
              /\ LET r == StoreFactory_get_page_list(stores, names, offset, limit,
                                                     filter, entries)
                 IN  call' = [op |-> "get_page_list", offset |-> offset,
                              limit |-> limit, filter |-> filter,
                              result |-> [count |-> r.count, results |-> r.results],
                              calls |-> r.calls, before |-> stores]
    /\ UNCHANGED <<stores, renderVars, cacheVars, extVars>>

ListInit ==
    /\ stores \in ListFederations
    /\ call = IdleCall
    /\ RenderIdle
    /\ CacheIdle
    /\ ExtIdle

ListNext == CallGetPageList

SpecList == ListInit /\ [][ListNext]_vars

\* The stores that, before the call, hold a page titled as item is.
Producers(item) ==
    {name \in DOMAIN call.before :
        \E f \in DOMAIN call.before[name].files :
            /\ call.before[name].files[f].valid
            /\ call.before[name].files[f].page.title = item.title}

\* C9: every item of federation get_page_list has in its store field the
\* name of the backend that produced it; with filter["store"] = s only
\* backend s is queried, every item has store = s and count is the count
\* backend s answered.
C9_StoreField ==
    call.op = "get_page_list" =>
        /\ \A i \in 1..Len(call.result.results) :
              Producers(call.result.results[i]) = {call.result.results[i].store}
        /\ FilterGet(call.filter, "store").some =>
              LET s == FilterGet(call.filter, "store").value
              IN  /\ \A i \in 1..Len(call.calls) : call.calls[i].store = s
                  /\ \A i \in 1..Len(call.result.results) :
                        call.result.results[i].store = s
                  /\ IF s \in DOMAIN call.before
                     THEN /\ Len(call.calls) = 1
                          /\ call.result.count = call.calls[1].result.count
                     ELSE /\ call.calls = <<>>
                          /\ call.result.count = 0

\* A listing filtered to store a, while store b lists a page too, returned
\* store a's page and counted store a's pages only.
C9_Witness ==
    /\ call.op = "get_page_list"
    /\ FilterGet(call.filter, "store") = Some(<<"a">>)
    /\ FileStore_get_page_list(call.before[<<"b">>], 0, 1, <<>>,
           CHOOSE o \in Orders(DirEntries(call.before[<<"b">>])) : TRUE).count = 1
    /\ call.result.count = 1
    /\ Len(call.result.results) = 1
    /\ call.result.results[1].store = <<"a">>
    /\ call.result.results[1].title = <<"page of", "a", "h">>

\* The file name of directory entry f without its extension.
EntryName(f) == <<f[Len(f) - 1]>>

\* The page files of a store that a listing of type filter_type is to
\* return: templates are the files whose name starts with "_".
Passing(store, filter_type) ==
    {f \in DirEntries(store) :
        /\ f[Len(f)] = Yaml
        /\ store.files[f].valid
        /\ filter_type = "template" => StartsWithUnderscore(EntryName(f))
        /\ filter_type = "page" => ~StartsWithUnderscore(EntryName(f))}

\* C24: a file store's get_page_list with filter type "template" returns
\* exactly the pages whose file name starts with "_", with type "page"
\* exactly those whose file name does not; count is the number of pages
\* that pass the filter.
C24_TypeFilter ==
    (call.op = "get_page_list" /\ FilterGet(call.filter, "type").some) =>
        \A i \in 1..Len(call.calls) :
            LET c       == call.calls[i]
                store   == call.before[c.store]
                passing == Passing(store, FilterGet(call.filter, "type").value)
            IN  store.has_pages =>
                    /\ c.result.count = Cardinality(passing)
                    /\ \A j \in 1..Len(c.result.results) :
                          \E f \in passing :
                              store.files[f].page.title = c.result.results[j].title
                    /\ (c.offset = 0 /\ c.limit >= Cardinality(passing)) =>
                          Len(c.result.results) = Cardinality(passing)

\* Every page of the stores names, listed backend after backend with the
\* store field set.
RECURSIVE Concatenation(_, _, _, _)
Concatenation(sts, names, filter, entries) ==
    IF names = <<>> THEN <<>>
    ELSE LET all == FileStore_get_page_list(sts[Head(names)], 0,
                        Cardinality(DOMAIN sts[Head(names)].files),
                        filter, entries[Head(names)]).results
         IN  [i \in 1..Len(all) |-> SetStore(all[i], Head(names))]
                 \o Concatenation(sts, Tail(names), filter, entries)

\* The backends the listing goes to under filter.
Queried(sts, filter) ==
    {n \in DOMAIN sts :
        FilterGet(filter, "store").some => FilterGet(filter, "store").value = n}

RECURSIVE SumCounts(_)
SumCounts(cs) ==
    IF cs = <<>> THEN 0 ELSE Head(cs).result.count + SumCounts(Tail(cs))

\* C28: federation get_page_list paginates globally: the items returned are
\* exactly those at positions [offset, offset + limit) of the concatenation
\* of the backends' pages, taken in the order in which the stores and their
\* directories were gone through; never more than limit items; count is
\* the sum of the backends' counts.
C28_GlobalPagination ==
    call.op = "get_page_list" =>
        /\ Len(call.result.results) <= call.limit
        /\ call.result.count = SumCounts(call.calls)
        /\ \E names \in Orders(Queried(call.before, call.filter)) :
           \E entries \in [DOMAIN call.before ->
                             UNION {Orders(DirEntries(call.before[n])) :
                                       n \in DOMAIN call.before}] :
              /\ \A n \in DOMAIN call.before :
                    entries[n] \in Orders(DirEntries(call.before[n]))
              /\ call.result.results =
                    Take(Skip(Concatenation(call.before, names, call.filter,
                                            entries),
                              call.offset),
                         call.limit)

(***************************************************************************)
(* In-memory cache (cache/inmem.rs).  cache is the HashMap, cache_hist the *)
(* operations made so far with their answers.                              *)
(***************************************************************************)
CacheKeys   == {"k1", "k2"}
CacheValues == {"v1", "v2"}

Unit == "()"

InMemCache_get(c, key) ==
    IF key \in DOMAIN c THEN Some(c[key]) ELSE None

InMemCache_set_KeepFirst(c, key, value) ==
    IF key \in DOMAIN c THEN c ELSE Insert(c, key, value)

InMemCache_set(c, key, value) == Insert(c, key, value)

\* [result, cache]: the answer of delete(key) and the map after it.
InMemCache_delete(c, key) ==
    LET ret == IF key \in DOMAIN c THEN Some(c[key]) ELSE None
    IN  [result |-> IF ret.some THEN Some(Unit) ELSE None,
         cache  |-> [k \in DOMAIN c \ {key} |-> c[k]]]

CacheDid(op) ==
    /\ cache_call' = op
    /\ cache_hist' = Append(cache_hist, op)

CacheGet ==
    /\ Len(cache_hist) < MaxCacheOps
    /\ \E key \in CacheKeys :
          CacheDid([op |-> "get", key |-> key, result |-> InMemCache_get(cache, key)])
    /\ UNCHANGED <<cache, renderVars, storeVars, extVars>>

CacheSet ==
    /\ Len(cache_hist) < MaxCacheOps
    /\ \E key \in CacheKeys, value \in CacheValues :
          /\ cache' = InMemCache_set(cache, key, value)
          /\ CacheDid([op |-> "set", key |-> key, value |-> value])
    /\ UNCHANGED <<renderVars, storeVars, extVars>>

CacheDelete ==
    /\ Len(cache_hist) < MaxCacheOps
    /\ \E key \in CacheKeys :
          LET r == InMemCache_delete(cache, key)
          IN  /\ cache' = r.cache
              /\ CacheDid([op |-> "delete", key |-> key, result |-> r.result])
    /\ UNCHANGED <<renderVars, storeVars, extVars>>

CacheInit ==
    /\ CacheIdle
    /\ ExtIdle
    /\ stores = <<>>
    /\ call = IdleCall
    /\ RenderIdle

CacheNext ==
    \/ CacheGet
    \/ CacheSet
    \/ CacheDelete

SpecCache == CacheInit /\ [][CacheNext]_vars

\* The positions among the first n operations that set or deleted key.
WritesTo(key, n) ==
    {j \in 1..n : cache_hist[j].key = key /\ cache_hist[j].op \in {"set", "delete"}}

\* What the first n operations left for key: the value of the last set not
\* followed by a delete.
LastWrite(key, n) ==
    IF WritesTo(key, n) = {} THEN None
    ELSE LET j == CHOOSE w \in WritesTo(key, n) : \A x \in WritesTo(key, n) : x <= w
         IN  IF cache_hist[j].op = "set" THEN Some(cache_hist[j].value) ELSE None

\* C10: over any sequence of operations, get(k) answers Some(v) with v the
\* value of the most recent set(k, v) not followed by a delete(k) and None
\* otherwise; delete(k) answers present iff a value existed for k just before
\* it.
C10_CacheContract ==
    \A i \in 1..Len(cache_hist) :
        /\ cache_hist[i].op = "get" =>
              cache_hist[i].result = LastWrite(cache_hist[i].key, i - 1)
        /\ cache_hist[i].op = "delete" =>
              (cache_hist[i].result = Some(Unit)
                  <=> LastWrite(cache_hist[i].key, i - 1).some)
        /\ cache_hist[i].op = "delete" => cache_hist[i].result \in {Some(Unit), None}

\* set(k1, v1), set(k1, v2), get(k1) = Some(v2), then two deletes of k1: the
\* first present, the second absent.
C10_Witness ==
    /\ Len(cache_hist) = 5
    /\ cache_hist[1] = [op |-> "set", key |-> "k1", value |-> "v1"]
    /\ cache_hist[2] = [op |-> "set", key |-> "k1", value |-> "v2"]
    /\ cache_hist[3] = [op |-> "get", key |-> "k1", result |-> Some("v2")]
    /\ cache_hist[4] = [op |-> "delete", key |-> "k1", result |-> Some(Unit)]
    /\ cache_hist[5] = [op |-> "delete", key |-> "k1", result |-> None]

(***************************************************************************)
(* The process-wide cache handle (cache/cache.rs) with its backends        *)
(* (cache/inmem.rs, cache/redis.rs).  backends[i] is the i-th backend made *)
(* by the process; an Arc is the number of the backend it points to.       *)
(***************************************************************************)
SwapKey == "k"

\* RedisCache: connected tells whether get_multiplexed_async_connection and
\* the command succeeded.
RedisCache_get(server, key, connected) ==
    IF connected THEN InMemCache_get(server, key) ELSE None

RedisCache_set(server, key, value, connected) ==
    IF connected THEN Insert(server, key, value) ELSE server

RedisCache_delete(server, key, connected) ==
    IF connected
    THEN [result |-> Some(Unit), cache |-> [k \in DOMAIN server \ {key} |-> server[k]]]
    ELSE [result |-> None, cache |-> server]

cache_Initial ==
    CHOOSE i \in DOMAIN backends : \A j \in DOMAIN backends : i <= j

\* cache(): CACHE.read().unwrap().clone()
cache_handle == CACHE

SwapDid(event) == swap_hist' = Append(swap_hist, event)

\* A task calls cache() and keeps the Arc.
GetHandle ==
    /\ Len(swap_hist) < MaxSwapOps
    /\ \E t \in Tasks :
          /\ handle' = [handle EXCEPT ![t] = Some(cache_handle)]
          /\ SwapDid([op |-> "cache", task |-> t, arc |-> cache_handle])
    /\ UNCHANGED <<CACHE, backends, redis>>
    /\ UNCHANGED notSwapVars

\* set_cache(backend, url)
SetCache ==
    /\ Len(swap_hist) < MaxSwapOps
    /\ \E backend \in {"inmem", "redis", "memcached"},
          url \in {RedisUrl, "not a url"} :
          LET made ==
                  CASE backend = "inmem" -> Ok([kind |-> "inmem", cache |-> <<>>])
                    [] backend = "redis" ->
                          IF url = RedisUrl
                          THEN Ok([kind |-> "redis", url |-> url])
                          ELSE Err("RedisError")
                    [] OTHER -> Err("InvalidCacheBackend")
          IN  IF made.ok
              THEN /\ backends' = Append(backends, made.value)
                   /\ CACHE' = Len(backends) + 1
                   /\ SwapDid([op |-> "set_cache", backend |-> backend,
                               result |-> Ok(Len(backends) + 1)])
              ELSE /\ UNCHANGED <<CACHE, backends>>
                   /\ SwapDid([op |-> "set_cache", backend |-> backend,
                               result |-> made])
    /\ UNCHANGED <<redis, handle>>
    /\ UNCHANGED notSwapVars

\* What the backend an Arc points to holds, and the state with new contents.
Contents(b) ==
    IF backends[b].kind = "inmem" THEN backends[b].cache
    ELSE redis[backends[b].url]

SetContents(b, c) ==
    IF backends[b].kind = "inmem"
    THEN /\ backends' = [backends EXCEPT ![b].cache = c]
         /\ UNCHANGED redis
    ELSE /\ redis' = [redis EXCEPT ![backends[b].url] = c]
         /\ UNCHANGED backends

\* A task calls get, set or delete through the Arc it holds.
HandleGet ==
    /\ Len(swap_hist) < MaxSwapOps
    /\ \E t \in Tasks, connected \in BOOLEAN :
          /\ handle[t].some
          /\ LET b == handle[t].value
                 r == IF backends[b].kind = "inmem"
                      THEN InMemCache_get(Contents(b), SwapKey)
                      ELSE RedisCache_get(Contents(b), SwapKey, connected)
             IN  SwapDid([op |-> "get", task |-> t, on |-> b, result |-> r])
    /\ UNCHANGED <<CACHE, backends, redis, handle>>
    /\ UNCHANGED notSwapVars

HandleSet ==
    /\ Len(swap_hist) < MaxSwapOps
    /\ \E t \in Tasks, value \in CacheValues, connected \in BOOLEAN :
          /\ handle[t].some
          /\ LET b == handle[t].value
             IN  /\ SetContents(b,
                        IF backends[b].kind = "inmem"
                        THEN InMemCache_set(Contents(b), SwapKey, value)
                        ELSE RedisCache_set(Contents(b), SwapKey, value, connected))
                 /\ SwapDid([op |-> "set", task |-> t, on |-> b, value |-> value])
    /\ UNCHANGED <<CACHE, handle>>
    /\ UNCHANGED notSwapVars

HandleDelete ==
    /\ Len(swap_hist) < MaxSwapOps
    /\ \E t \in Tasks, connected \in BOOLEAN :
          /\ handle[t].some
          /\ LET b == handle[t].value
                 r == IF backends[b].kind = "inmem"
                      THEN InMemCache_delete(Contents(b), SwapKey)
                      ELSE RedisCache_delete(Contents(b), SwapKey, connected)
             IN  /\ SetContents(b, r.cache)
                 /\ SwapDid([op |-> "delete", task |-> t, on |-> b,
                             result |-> r.result])
    /\ UNCHANGED <<CACHE, handle>>
    /\ UNCHANGED notSwapVars

SwapInit ==
    /\ SwapIdle
    /\ UrlIdle
    /\ LateIdle
    /\ RenderIdle
    /\ stores = <<>>
    /\ call = IdleCall
    /\ CacheIdle

SwapNext ==
    \/ GetHandle
    \/ SetCache
    \/ HandleGet
    \/ HandleSet
    \/ HandleDelete

SpecSwap == SwapInit /\ [][SwapNext]_vars

\* The backend that the last successful set_cache among the first n calls
\* installed; the initial backend when there was none.
Installed(n) ==
    LET sets == {j \in 1..n : swap_hist[j].op = "set_cache" /\ swap_hist[j].result.ok}
    IN  IF sets = {} THEN 1
        ELSE swap_hist[CHOOSE j \in sets : \A x \in sets : x <= j].result.value

\* The positions among the first n calls that set or deleted through an Arc
\* to backend b.
SwapWrites(b, n) ==
    {j \in 1..n : swap_hist[j].op \in {"set", "delete"} /\ swap_hist[j].on = b}

\* What the set and delete calls made on backend b among the first n calls
\* left for the key.
SwapLastWrite(b, n) ==
    IF SwapWrites(b, n) = {} THEN None
    ELSE LET j == CHOOSE w \in SwapWrites(b, n) : \A x \in SwapWrites(b, n) : x <= w
         IN  IF swap_hist[j].op = "set" THEN Some(swap_hist[j].value) ELSE None

\* C11: set_cache replaces the handle atomically: every cache() call returns
\* the backend installed last before it (the old or the new one, whole); a
\* call made through an Arc works on the backend the Arc was taken from,
\* also after a later set_cache, and on an in-memory backend it answers by
\* the cache contract of that backend alone.
C11_HotSwap ==
    /\ CACHE = Installed(Len(swap_hist))
    /\ \A i \in 1..Len(swap_hist) :
          LET e == swap_hist[i]
          IN  /\ e.op = "cache" =>
                    /\ e.arc = Installed(i - 1)
                    /\ e.arc \in 1..Len(backends)
              /\ e.op \in {"get", "set", "delete"} =>
                    \E j \in 1..(i - 1) :
                        /\ swap_hist[j].op = "cache"
                        /\ swap_hist[j].task = e.task
                        /\ swap_hist[j].arc = e.on
                        /\ \A x \in (j + 1)..(i - 1) :
                              ~(swap_hist[x].op = "cache" /\ swap_hist[x].task = e.task)
              /\ (e.op = "get" /\ backends[e.on].kind = "inmem") =>
                    e.result = SwapLastWrite(e.on, i - 1)
              /\ (e.op = "delete" /\ backends[e.on].kind = "inmem") =>
                    (e.result = Some(Unit) <=> SwapLastWrite(e.on, i - 1).some)

\* A task took its Arc and set a value; set_cache installed a new in-memory
\* backend; the task's get through the old Arc still answered the value.
C11_Witness ==
    /\ Len(swap_hist) = 4
    /\ swap_hist[1] = [op |-> "cache", task |-> "t1", arc |-> 1]
    /\ swap_hist[2] = [op |-> "set", task |-> "t1", on |-> 1, value |-> "v1"]
    /\ swap_hist[3] = [op |-> "set_cache", backend |-> "inmem", result |-> Ok(2)]
    /\ swap_hist[4] = [op |-> "get", task |-> "t1", on |-> 1, result |-> Some("v1")]
    /\ CACHE = 2

(***************************************************************************)
(* url_context (store/code.rs) over the in-memory cache.  A call awaits    *)
(* the cache read, the HTTP exchange and the cache write, so the calls of  *)
(* two tasks interleave at those points.                                   *)
(***************************************************************************)
Urls == {"u1", "u2"}

\* What an HTTP exchange can bring back: two JSON texts, a text that is no
\* JSON, and bytes that are no UTF-8.
JsonBodies == {"{\"n\":1}", "{\"n\":2}"}
Bodies == JsonBodies \cup {"oops", "\\xff"}

\* String::from_utf8(body.to_vec())
FromUtf8(body) == IF body = "\\xff" THEN Err("FromUtf8Error") ELSE Ok(body)

\* serde_json::from_str / from_slice: the parsed value of a JSON text.
JsonTexts == JsonBodies \cup {"null", "{\"name\":\"Ada\"}"}

ParseJson(text) ==
    IF text \in JsonTexts THEN Ok(<<"json", text>>) ELSE Err("JsonError")

\* The context with key bound to value.
Bind(key, value) == Ok([key |-> key, value |-> value])

\* The call of task t returns result; read is what the cache answered and
\* fetched the body the call got by HTTP.
UrlEnd(t, read, fetched, result) ==
    /\ url_task' = [url_task EXCEPT ![t] = IdleTask]
    /\ url_calls' = Append(url_calls,
          [id |-> url_task[t].id, task |-> t, url |-> url_task[t].url,
           key |-> url_task[t].key,
           read |-> read, fetched |-> fetched, result |-> result])

\* The calls made so far; the next call is number CallsStarted + 1.
CallsStarted ==
    Len(url_calls) + Cardinality({x \in Tasks : url_task[x].pc # "idle"})

\* url_context is called for an element with data url and key (lines 62-69).
UrlCall(t, url, key) ==
    /\ url_task[t].pc = "idle"
    /\ CallsStarted < MaxUrlCalls
    /\ IF ~url.some
       THEN url_calls' = Append(url_calls,
                [id |-> CallsStarted + 1, task |-> t, url |-> url, key |-> key,
                 read |-> None, fetched |-> None,
                 result |-> Err("URL not found")])
            /\ UNCHANGED url_task
       ELSE IF ~key.some
       THEN url_calls' = Append(url_calls,
                [id |-> CallsStarted + 1, task |-> t, url |-> url, key |-> key,
                 read |-> None, fetched |-> None,
                 result |-> Err("Key not found")])
            /\ UNCHANGED url_task
       ELSE /\ url_task' = [url_task EXCEPT ![t] =
                              [pc |-> "get", id |-> CallsStarted + 1,
                               url |-> url, key |-> key]]
            /\ UNCHANGED url_calls
    /\ UNCHANGED <<cache, http_log>>
    /\ UNCHANGED notUrlVars

UrlInputs == {None} \cup {Some(u) : u \in Urls}
KeyInputs == {None, Some("user")}

\* A call starts while no other call is under way.
UrlCallAlone ==
    /\ \A t \in Tasks : url_task[t].pc = "idle"
    /\ \E t \in Tasks, url \in UrlInputs, key \in KeyInputs : UrlCall(t, url, key)

\* A call starts, whatever the other task does.
UrlCallAny ==
    \E t \in Tasks, url \in UrlInputs, key \in KeyInputs : UrlCall(t, url, key)

\* cache::cache().get(url).await and, on a hit, the parse (lines 72-79).
UrlCacheGet ==
    /\ \E t \in Tasks :
          /\ url_task[t].pc = "get"
          /\ LET hit == InMemCache_get(cache, url_task[t].url.value)
             IN  IF hit.some
                 THEN LET value == ParseJson(hit.value)
                      IN  UrlEnd(t, hit, None,
                                 IF value.ok
                                 THEN Bind(url_task[t].key.value, value.value)
                                 ELSE value)
                 ELSE /\ url_task' = [url_task EXCEPT ![t].pc = "send"]
                      /\ UNCHANGED url_calls
    /\ UNCHANGED <<cache, http_log>>
    /\ UNCHANGED notUrlVars

\* client.get(url)...send().await? and bytes().await? (lines 86-93), then
\* String::from_utf8(...)? for the cache write (line 95).
UrlFetch ==
    /\ \E t \in Tasks, answer \in {None} \cup {Some(b) : b \in Bodies} :
          /\ url_task[t].pc = "send"
          /\ http_log' = Append(http_log,
                [id |-> url_task[t].id, task |-> t,
                 url |-> url_task[t].url.value, body |-> answer])
          /\ IF ~answer.some
             THEN UrlEnd(t, None, None, Err("HttpError"))
             ELSE IF ~FromUtf8(answer.value).ok
             THEN UrlEnd(t, None, answer, FromUtf8(answer.value))
             ELSE /\ url_task' = [url_task EXCEPT ![t] =
                        [pc |-> "set", id |-> @.id, url |-> @.url,
                         key |-> @.key, body |-> answer.value]]
                  /\ UNCHANGED url_calls
    /\ UNCHANGED cache
    /\ UNCHANGED notUrlVars

\* A cache write made only for a body that parses.
UrlCacheSet_ParseFirst ==
    /\ \E t \in Tasks :
          /\ url_task[t].pc = "set"
          /\ LET value == ParseJson(url_task[t].body)
             IN  /\ cache' = IF value.ok
                             THEN InMemCache_set(cache, url_task[t].url.value,
                                      FromUtf8(url_task[t].body).value)
                             ELSE cache
                 /\ UrlEnd(t, None, Some(url_task[t].body),
                           IF value.ok
                           THEN Bind(url_task[t].key.value, value.value)
                           ELSE value)
    /\ UNCHANGED http_log
    /\ UNCHANGED notUrlVars

\* cache::cache().set(url, ...).await and the parse of the body (lines 94-99).
UrlCacheSet ==
    /\ \E t \in Tasks :
          /\ url_task[t].pc = "set"
          /\ cache' = InMemCache_set(cache, url_task[t].url.value,
                                     FromUtf8(url_task[t].body).value)
          /\ LET value == ParseJson(url_task[t].body)
             IN  UrlEnd(t, None, Some(url_task[t].body),
                        IF value.ok
                        THEN Bind(url_task[t].key.value, value.value)
                        ELSE value)
    /\ UNCHANGED http_log
    /\ UNCHANGED notUrlVars

UrlInit ==
    /\ UrlIdle
    /\ LateIdle
    /\ cache = IdleCache /\ cache_call = IdleCacheCall /\ cache_hist = <<>>
    /\ SwapIdle
    /\ RenderIdle
    /\ stores = <<>>
    /\ call = IdleCall

UrlSeqNext ==
    \/ UrlCallAlone
    \/ UrlCacheGet
    \/ UrlFetch
    \/ UrlCacheSet

\* url_context calls one after the other.
SpecUrlSeq == UrlInit /\ [][UrlSeqNext]_vars

UrlNext ==
    \/ UrlCallAny
    \/ UrlCacheGet
    \/ UrlFetch
    \/ UrlCacheSet

\* url_context calls of two tasks at once.
SpecUrl == UrlInit /\ [][UrlNext]_vars

\* The HTTP requests that call c made.
FetchesOf(c) == {j \in 1..Len(http_log) : http_log[j].id = c.id}

\* The HTTP requests for url that brought a body back.
BodiesFetched(url) ==
    {j \in 1..Len(http_log) : http_log[j].url = url /\ http_log[j].body.some}

\* What a call binds when text is the cached string or the fetched body.
Bound(c, text) ==
    IF ParseJson(text).ok THEN Bind(c.key.value, ParseJson(text).value)
    ELSE ParseJson(text)

\* C12: url_context asks the cache before the network.  On a hit it makes no
\* HTTP request and binds the parsed cached string; on a miss it makes
\* exactly one HTTP GET, stores the body it got in the cache under the url
\* and binds the parsed body.  In a sequential run at most one HTTP fetch
\* that returns a body is made per url.
C12_FetchOnce ==
    /\ \A i \in 1..Len(url_calls) :
          LET c == url_calls[i]
          IN  (c.url.some /\ c.key.some) =>
                 /\ c.read.some =>
                       /\ FetchesOf(c) = {}
                       /\ c.result = Bound(c, c.read.value)
                 /\ ~c.read.some =>
                       /\ Cardinality(FetchesOf(c)) = 1
                       /\ \A j \in FetchesOf(c) :
                             http_log[j].body.some =>
                                /\ c.url.value \in DOMAIN cache
                                /\ c.result = Bound(c, http_log[j].body.value)
    /\ \A u \in Urls : Cardinality(BodiesFetched(u)) <= 1
\* The calls that wrote the cache entry of url, in the order of the writes.
WritersOf(url) ==
    {i \in 1..Len(url_calls) :
        /\ url_calls[i].url = Some(url)
        /\ url_calls[i].key.some
        /\ url_calls[i].fetched.some
        /\ url_calls[i].fetched.value # "\\xff"}

\* C13: url_context has no single-flight.  Two tasks that ask for the same
\* url with a cold cache may both fetch and both write; whatever the
\* interleaving, the cache entry of a url is the body of the last write made
\* for it, and a call binds the parse of a body it fetched itself or of the
\* string it read from the cache, which some call had fetched and written.
C13_LastWriteWins ==
    /\ \A u \in Urls :
          IF WritersOf(u) = {} THEN u \notin DOMAIN cache
          ELSE /\ u \in DOMAIN cache
               /\ cache[u] = url_calls[CHOOSE i \in WritersOf(u) :
                                \A j \in WritersOf(u) : j <= i].fetched.value
    /\ \A i \in 1..Len(url_calls) :
          LET c == url_calls[i]
          IN  /\ c.result.ok =>
                    \/ c.fetched.some /\ c.result = Bound(c, c.fetched.value)
                    \/ c.read.some /\ c.result = Bound(c, c.read.value)
              /\ c.fetched.some =>
                    \E j \in FetchesOf(c) : http_log[j].body = c.fetched
              /\ c.read.some =>
                    \E j \in 1..(i - 1) :
                        /\ j \in WritersOf(c.url.value)
                        /\ url_calls[j].fetched = c.read

\* Both tasks asked for u1 with a cold cache, both fetched and both wrote:
\* the cache holds the body of the second write, and each bound its own body.
C13_Witness ==
    /\ Len(url_calls) = 2
    /\ Len(http_log) = 2
    /\ url_calls[1].task # url_calls[2].task
    /\ url_calls[1].url = Some("u1") /\ url_calls[2].url = Some("u1")
    /\ url_calls[1].fetched = Some("{\"n\":1}")
    /\ url_calls[2].fetched = Some("{\"n\":2}")
    /\ url_calls[1].result = Bind("user", <<"json", "{\"n\":1}">>)
    /\ url_calls[2].result = Bind("user", <<"json", "{\"n\":2}">>)
    /\ cache["u1"] = "{\"n\":2}"

\* C27 as stated: a url_context that fails leaves the cache as it was, so
\* every cache entry is the body of a call that succeeded, and no call
\* fails on a string it read from the cache.
C27_FailureLeavesCache ==
    /\ \A u \in DOMAIN cache :
          \E i \in 1..Len(url_calls) :
              /\ url_calls[i].url = Some(u)
              /\ url_calls[i].result.ok
              /\ url_calls[i].fetched = Some(cache[u])
    /\ \A i \in 1..Len(url_calls) :
          url_calls[i].read.some => url_calls[i].result.ok

\* C27, amended: a url_context that fails before the cache write (no url or
\* key, the HTTP exchange failed, the body is not UTF-8) leaves the cache
\* as it was; a body that is UTF-8 is stored before it is parsed, so a body
\* that is no JSON is in the cache when the call fails, and the next call
\* for the url makes no request and fails on the cached body.
C27_StoredBeforeParse ==
    /\ \A u \in Urls :
          IF WritersOf(u) = {} THEN u \notin DOMAIN cache
          ELSE /\ Cardinality(WritersOf(u)) = 1
               /\ u \in DOMAIN cache
               /\ \A i \in WritersOf(u) : cache[u] = url_calls[i].fetched.value
    /\ \A i \in 1..Len(url_calls) :
          LET c == url_calls[i]
          IN  /\ (c.fetched.some /\ c.result = Err("JsonError")) =>
                    cache[c.url.value] = c.fetched.value
              /\ (c.read.some /\ ~c.result.ok) =>
                    /\ FetchesOf(c) = {}
                    /\ c.result = Err("JsonError")
                    /\ \E j \in 1..(i - 1) :
                          /\ url_calls[j].url = c.url
                          /\ url_calls[j].fetched = c.read
                          /\ url_calls[j].result = Err("JsonError")

\* The first call for u1 fetched a text that is no JSON and failed; the
\* second call for u1 read that text from the cache and failed without a
\* request, while a call whose body was not UTF-8 would have left no entry.
C27_Witness ==
    /\ Len(url_calls) = 2
    /\ Len(http_log) = 1
    /\ url_calls[1].url = Some("u1") /\ url_calls[2].url = Some("u1")
    /\ url_calls[1].fetched = Some("oops")
    /\ url_calls[1].result = Err("JsonError")
    /\ url_calls[2].read = Some("oops")
    /\ url_calls[2].result = Err("JsonError")
    /\ cache = ("u1" :> "oops")

(***************************************************************************)
(* Context-injecting widgets (store/code.rs) in a rendering pass.          *)
(***************************************************************************)
\* HashMap::get on element.data
DataGet(element, field) ==
    IF field \in DOMAIN element.data THEN Some(element.data[field]) ELSE None

\* CodeStore::static_context: the context c with data["key"] bound to the
\* JSON parsed from data["value"].
CodeStore_static_context(element, c) ==
    LET value_str  == IF DataGet(element, "value").some
                      THEN DataGet(element, "value").value ELSE "null"
        value_json == ParseJson(value_str)
        key        == DataGet(element, "key")
    IN  IF ~value_json.ok THEN value_json
        ELSE IF ~key.some THEN Err("Key not found")
        ELSE Ok((key.value :> value_json.value) @@ c)

\* CodeStore::load_widget_definition: the two built-in widgets, whose
\* templates print their children.
CodeWidget(name) == [name |-> name, html |-> "children", css |-> <<>>]

CodeStore ==
    [path |-> <<>>, has_widgets |-> TRUE, has_pages |-> FALSE,
     widgets |-> [w \in {<<"static_context">>, <<"url_context">>} |-> CodeWidget(w)],
     files |-> <<>>]

ContextStores == (<<"test">> :> TestStore) @@ (<<"code">> :> CodeStore)

StaticContext == <<"code", "/", "static_context">>

ContextWidgets ==
    {StaticContext, <<"test", "/", "text">>, <<"test", "/", "columns">>}

\* The data of a static_context element: key and value, a value that is no
\* JSON, no key.
StaticData ==
    { [key |-> "user", value |-> "{\"name\":\"Ada\"}"],
      [key |-> "user", value |-> "oops"],
      [value |-> "{\"name\":\"Ada\"}"] }

\* The elements of a page: plain widgets without data, static_context
\* elements with one of the data above.
ContextElements ==
    {[widget |-> w, data |-> <<>>] : w \in ContextWidgets \ {StaticContext}}
        \cup {[widget |-> StaticContext, data |-> d] : d \in StaticData}

ContextPagesOfSize(n) ==
    { [n |-> n, parent |-> parent,
       elem |-> [k \in 1..n |->
                   [id |-> ElementId(k), widget |-> e[k].widget, style |-> <<>>,
                    data |-> e[k].data]]] :
        parent \in {q \in [1..n -> 0..(n - 1)] : IsForest(n, q)},
        e \in [1..n -> ContextElements] }

ContextPages == UNION {ContextPagesOfSize(n) : n \in 1..MaxNodes}

ContextInit ==
    /\ page \in ContextPages
    /\ debug \in BOOLEAN
    /\ ctx \in {<<>>, "site" :> "coral"}
    /\ config \in {[debug |-> b] : b \in BOOLEAN}
    /\ stack = <<>>
    /\ rendered_body = <<>>
    /\ next_root = 1
    /\ rendered_page = NewRenderedPage
    /\ returned = NotReturned
    /\ render_log = <<>>
    /\ stores = ContextStores
    /\ call = IdleCall
    /\ CacheIdle
    /\ ExtIdle

ContextNext ==
    \/ RenderRoot
    \/ RenderChild
    \/ RenderOwn
    \/ RenderDone

SpecContext == ContextInit /\ [][ContextNext]_vars

IsStatic(k) == page.elem[k].widget = StaticContext

\* The context element k is to be rendered with: the caller's context,
\* extended by every static_context element above k.
RECURSIVE ScopedContext(_)
ScopedContext(k) ==
    LET p == page.parent[k]
    IN  IF p = 0 THEN ctx
        ELSE IF IsStatic(p) /\ CodeStore_static_context(page.elem[p], ScopedContext(p)).ok
        THEN CodeStore_static_context(page.elem[p], ScopedContext(p)).value
        ELSE ScopedContext(p)

\* A static_context element without key, or with a value that is no JSON.
BadStatic(k) ==
    IsStatic(k) /\ ~CodeStore_static_context(page.elem[k], <<>>).ok

\* C14: static_context binds the parsed data["value"] under data["key"] for
\* the element's own subtree only: every descendant is rendered with the
\* extended context, every element outside the subtree with the context
\* unchanged; a missing key or a value that is no JSON is an error: no page
\* without errors is returned.
C14_StaticContext ==
    /\ \A i \in 1..Len(WidgetEvents) :
          WidgetEvents[i].ctx = ScopedContext(WidgetEvents[i].node)
    /\ (ReturnedPage /\ \E k \in 1..page.n : BadStatic(k)) =>
          returned.page.errors # <<>>

(***************************************************************************)
(* CSS emission (renderer/renderedpage.rs, get_css).  css_variables is a   *)
(* HashMap: iter() yields its entries in an order the map's hasher         *)
(* decides, and two maps holding the same entries may yield them in        *)
(* different orders.                                                       *)
(***************************************************************************)

\* RenderedPage::get_css: one fragment per entry, the entries yielded in the
\* order given; the fragments are joined by "\n".
RenderedPage_get_css(css_variables, order) ==
    [i \in 1..Len(order) |->
        IF order[i][1] = "--"
        THEN css_variables[order[i]]
        ELSE <<order[i], "{", css_variables[order[i]], "}">>]

\* A second store that has a widget named text, with CSS of its own.
AltStore ==
    [path |-> <<"alt">>, has_widgets |-> TRUE, has_pages |-> FALSE,
     widgets |-> (<<"text">> :>
                    [name |-> <<"text">>, html |-> "text",
                     css |-> <<"css", "alt text">>]),
     files |-> <<>>]

CssStores == (<<"test">> :> TestStore) @@ (<<"alt">> :> AltStore)

CssWidgets ==
    {<<"test", "/", "text">>, <<"test", "/", "columns">>, <<"alt", "/", "text">>}

\* element.style: no declaration, one, several.
CssStyles ==
    { <<>>,
      ("color" :> "red"),
      ("color" :> "red") @@ ("padding" :> "2rem") }

CssPagesOfSize(n) ==
    { [n |-> n, parent |-> parent,
       elem |-> [k \in 1..n |->
                   [id |-> ElementId(k), widget |-> widget[k],
                    style |-> style[k]]]] :
        parent \in {q \in [1..n -> 0..(n - 1)] : IsForest(n, q)},
        widget \in [1..n -> CssWidgets],
        style \in [1..n -> CssStyles] }

CssPages == UNION {CssPagesOfSize(n) : n \in 1..MaxCssNodes}

\* The caller of render_page asks the page it got for its CSS.
GetCss ==
    /\ returned.done /\ returned.ok
    /\ ~css_out.some
    /\ \E order \in IterOrders(DOMAIN returned.page.css_variables) :
          css_out' = Some([order |-> order,
                           text  |-> RenderedPage_get_css(
                                        returned.page.css_variables, order)])
    /\ UNCHANGED <<first_call, renderVars, storeVars, cacheVars, swapVars, urlVars,
                   fixVars, pdfVars, cfgVars, rstVars>>

\* render_page is called once more, with the page, context and debug flag of
\* the call before, against the same stores.
RenderAgain ==
    /\ returned.done /\ returned.ok
    /\ css_out.some
    /\ ~first_call.some
    /\ first_call' = Some([body |-> returned.page.body, css |-> css_out.value.text])
    /\ css_out' = None
    /\ stack' = <<>>
    /\ rendered_body' = <<>>
    /\ next_root' = 1
    /\ rendered_page' = NewRenderedPage
    /\ returned' = NotReturned
    /\ render_log' = <<>>
    /\ UNCHANGED <<page, debug, ctx, config>>
    /\ UNCHANGED <<storeVars, cacheVars, swapVars, urlVars, fixVars, pdfVars, cfgVars, rstVars>>

CssInit ==
    /\ page \in CssPages
    /\ debug \in BOOLEAN
    /\ ctx = <<>>
    /\ config \in {[debug |-> b] : b \in BOOLEAN}
    /\ stack = <<>>
    /\ rendered_body = <<>>
    /\ next_root = 1
    /\ rendered_page = NewRenderedPage
    /\ returned = NotReturned
    /\ render_log = <<>>
    /\ stores = CssStores
    /\ call = IdleCall
    /\ CacheIdle
    /\ ExtIdle

CssNext ==
    \/ RenderRoot
    \/ RenderChild
    \/ RenderOwn
    \/ RenderDone
    \/ GetCss
    \/ RenderAgain

SpecCss == CssInit /\ [][CssNext]_vars

\* The symbols of the keys of css_variables, in the order of their text.
SortedSymbols == <<"#", "--", "columns", "e1", "e2", "e3", "text">>

SymbolRank(sym) == CHOOSE i \in 1..Len(SortedSymbols) : SortedSymbols[i] = sym

\* Key a comes before key b in the lexicographic order of their text.
KeyLess(a, b) ==
    \/ SymbolRank(a[1]) < SymbolRank(b[1])
    \/ a[1] = b[1] /\ SymbolRank(a[2][1]) < SymbolRank(b[2][1])

\* C15: get_css emits the entries of css_variables in the lexicographic
\* order of their keys (so that the CSS depends on the entries only, not on
\* the order in which rendering inserted them).
C15_SortedCss ==
    css_out.some =>
        \A i, j \in 1..Len(css_out.value.order) :
            i < j => KeyLess(css_out.value.order[i], css_out.value.order[j])

\* C16: render_page is deterministic: a second call with the same page,
\* context and debug flag against the same stores returns the body and the
\* get_css() string the first call returned.
C16_Deterministic ==
    (first_call.some /\ css_out.some) =>
        /\ returned.page.body = first_call.value.body
        /\ css_out.value.text = first_call.value.css

\* The widget render_widget was given for element k.
WidgetOf(k) == ResolveWidget(stores, page.elem[k].widget).value

\* The fragments of the string get_css returned.
CssFragments == {css_out.value.text[i] : i \in 1..Len(css_out.value.text)}

\* C17: in one pass no key of css_variables is written with two values: two
\* elements whose widgets write the same key write the same CSS, and the
\* CSS of every widget the page uses is in what get_css returns.
C17_NoCollision ==
    css_out.some =>
        /\ \A k1, k2 \in 1..page.n :
              WidgetOf(k1).name = WidgetOf(k2).name
                  => WidgetOf(k1).css = WidgetOf(k2).css
        /\ \A k \in 1..page.n : WidgetOf(k).css \in CssFragments

(***************************************************************************)
(* Element id normalization (page/types.rs, Element::fix and Page::fix).   *)
(* An id is a sequence of characters; what matters of a character is       *)
(* whether it is a decimal digit.                                          *)
(***************************************************************************)
Digits == {"0", "1", "2", "3", "4", "5", "6", "7", "8", "9"}

\* c.is_digit(10)
IsDigit(c) == c \in Digits

\* What uuid::Uuid::new_v4().to_string() may return: hexadecimal text that
\* starts with a digit or with a letter.
Uuids == {<<"4", "f">>, <<"f", "4">>}

Element_fix_NoPrefix(element, uuid) ==
    IF element.id = <<>> THEN [element EXCEPT !.id = uuid] ELSE element

\* Element::fix, lines 105-112: the element's own id.
Element_fix(element, uuid) ==
    IF element.id = <<>>
    THEN [element EXCEPT !.id = IF IsDigit(uuid[1]) THEN <<"id_">> \o uuid
                                 ELSE uuid]
    ELSE element

\* The elements the calls child.fix() reach from the elements ks.
RECURSIVE FixReach(_, _)
FixReach(p, ks) ==
    IF ks = <<>> THEN {}
    ELSE {Head(ks)} \cup FixReach(p, Children(p, Head(ks)))
                    \cup FixReach(p, Tail(ks))

\* Page::fix: every child of the page is fixed, and by Element::fix line 113
\* every child of a fixed element; uuids[k] is the uuid drawn for element k.
Page_fix(p, uuids) ==
    [p EXCEPT !.elem =
        [k \in 1..p.n |-> IF k \in FixReach(p, Children(p, 0))
                          THEN Element_fix(p.elem[k], uuids[k])
                          ELSE p.elem[k]]]

\* The ids a page read from a request or a file may carry: none, one that
\* starts with a letter, one that starts with a digit.
InputIds == {<<>>, <<"a">>, <<"1", "a">>}

FixPagesOfSize(n) ==
    { [n |-> n, parent |-> parent,
       elem |-> [k \in 1..n |->
                   [id |-> id[k], widget |-> <<"test", "/", "text">>,
                    style |-> <<>>]]] :
        parent \in {q \in [1..n -> 0..(n - 1)] : IsForest(n, q)},
        id \in [1..n -> InputIds] }

FixPages == UNION {FixPagesOfSize(n) : n \in 0..MaxNodes}

\* let page = page.fix();
PageFix ==
    /\ ~fixed.some
    /\ \E uuids \in [1..page.n -> Uuids] :
          fixed' = Some(Page_fix(page, uuids))
    /\ UNCHANGED <<renderVars, storeVars, cacheVars, swapVars, urlVars, cssVars,
                   cfgVars, rstVars, pdfVars>>

FixInit ==
    /\ page \in FixPages
    /\ debug = FALSE
    /\ ctx = <<>>
    /\ config = [debug |-> FALSE]
    /\ stack = <<>>
    /\ rendered_body = <<>>
    /\ next_root = 1
    /\ rendered_page = NewRenderedPage
    /\ returned = NotReturned
    /\ render_log = <<>>
    /\ stores = RenderStores
    /\ call = IdleCall
    /\ CacheIdle
    /\ ExtIdle

FixNext == PageFix

SpecFix == FixInit /\ [][FixNext]_vars

ConfigFields == {"debug", "port"}

\* Config::empty()
Config_empty == [debug |-> FALSE, port |-> 8006]

\* The configurations a well-formed file may hold.
FileConfigs == {[debug |-> TRUE, port |-> 1], [debug |-> FALSE, port |-> 2]}

\* What the configuration file holds: nothing (no file), text that is no
\* YAML of a Config, or a configuration.
NoFile == [kind |-> "missing"]
Garbage == [kind |-> "garbage"]
YamlOf(c) == [kind |-> "yaml", config |-> c]

FileStates == {NoFile, Garbage} \cup {YamlOf(c) : c \in FileConfigs}

\* Config::read
Config_read(file) ==
    IF file = NoFile THEN Err("Failed to open config file")
    ELSE IF file = Garbage THEN Err("Failed to parse config file")
    ELSE Ok(file.config)

\* The kinds of event the file watcher delivers.
EventKinds == {"close_write", "modify", "create", "remove"}

CloseWrite == "close_write"

\* An editor, or a deployment, changes the file.
EditFile ==
    /\ \E f \in FileStates : f # cfg_file /\ cfg_file' = f
    /\ UNCHANGED <<cfg_lock, cfg_writer, cfg_reader, cfg_last, cfg_installed,
                   cfg_events>>
    /\ UNCHANGED <<renderVars, storeVars, cacheVars, swapVars, urlVars, cssVars,
                   fixVars, pdfVars, rstVars>>

\* The first half of load_config and of reload_config_static: Config::read,
\* and on failure the return; source names the caller.
StartReload(source) ==
    LET r == Config_read(cfg_file)
    IN  /\ cfg_last' = Some([source |-> source, read |-> Some(r),
                          before |-> config])
        /\ cfg_events' = cfg_events + 1
        /\ cfg_writer' = IF r.ok THEN [pc |-> "wait", new |-> r.value]
                         ELSE [pc |-> "idle"]

\* load_config(path), lines 98-99.
LoadConfig ==
    /\ cfg_events < MaxCfgEvents
    /\ cfg_writer.pc = "idle"
    /\ StartReload("load_config")
    /\ UNCHANGED <<cfg_file, cfg_lock, cfg_reader, cfg_installed>>
    /\ UNCHANGED <<renderVars, storeVars, cacheVars, swapVars, urlVars, cssVars,
                   fixVars, pdfVars, rstVars>>

\* The watcher's loop, lines 143-161: the next event; close-after-write
\* starts a reload, every other kind is dropped.
WatchEvent ==
    /\ cfg_events < MaxCfgEvents
    /\ cfg_writer.pc = "idle"
    /\ \E kind \in EventKinds :
          IF kind = CloseWrite
          THEN StartReload("watcher")
          ELSE /\ cfg_last' = Some([source |-> kind, read |-> None,
                                    before |-> config])
               /\ cfg_events' = cfg_events + 1
               /\ UNCHANGED cfg_writer
    /\ UNCHANGED <<cfg_file, cfg_lock, cfg_reader, cfg_installed>>
    /\ UNCHANGED <<renderVars, storeVars, cacheVars, swapVars, urlVars, cssVars,
                   fixVars, pdfVars, rstVars>>

RwLock_write_Shared(lock) == ~lock.writer

\* RwLock::write().await completes: no reader and no writer holds the lock.
RwLock_write(lock) == ~lock.writer /\ lock.readers = 0

\* RwLock::read().await completes: no writer holds the lock.
RwLock_read(lock) == ~lock.writer

\* self.config.write().await, lines 100 and 178.
WriteLock ==
    /\ cfg_writer.pc = "wait"
    /\ RwLock_write(cfg_lock)
    /\ cfg_lock' = [cfg_lock EXCEPT !.writer = TRUE]
    /\ cfg_writer' = [pc |-> "assign", new |-> cfg_writer.new,
                      todo |-> ConfigFields]
    /\ UNCHANGED <<cfg_file, cfg_reader, cfg_last, cfg_installed, cfg_events>>
    /\ UNCHANGED <<renderVars, storeVars, cacheVars, swapVars, urlVars, cssVars,
                   fixVars, pdfVars, rstVars>>

\* *write_lock = config, lines 101 and 180: one more field is stored; after
\* the last one the guard is dropped.
Assign ==
    /\ cfg_writer.pc = "assign"
    /\ \E f \in cfg_writer.todo :
          /\ config' = [config EXCEPT ![f] = cfg_writer.new[f]]
          /\ IF cfg_writer.todo = {f}
             THEN /\ cfg_writer' = [pc |-> "idle"]
                  /\ cfg_lock' = [cfg_lock EXCEPT !.writer = FALSE]
                  /\ cfg_installed' = Append(cfg_installed, cfg_writer.new)
             ELSE /\ cfg_writer' = [cfg_writer EXCEPT !.todo = @ \ {f}]
                  /\ UNCHANGED <<cfg_lock, cfg_installed>>
    /\ UNCHANGED <<cfg_file, cfg_reader, cfg_last, cfg_events>>
    /\ UNCHANGED <<page, debug, ctx, stack, rendered_body, next_root,
                   rendered_page, returned, render_log>>
    /\ UNCHANGED <<storeVars, cacheVars, swapVars, urlVars, cssVars, fixVars, pdfVars,
                   rstVars>>

\* get_config(), lines 105-108: the read guard is handed out.
GetConfig ==
    /\ cfg_reader.pc = "idle"
    /\ RwLock_read(cfg_lock)
    /\ cfg_lock' = [cfg_lock EXCEPT !.readers = @ + 1]
    /\ cfg_reader' = [pc |-> "reading", seen |-> <<>>]
    /\ UNCHANGED <<cfg_file, cfg_writer, cfg_last, cfg_installed, cfg_events>>
    /\ UNCHANGED <<renderVars, storeVars, cacheVars, swapVars, urlVars, cssVars,
                   fixVars, pdfVars, rstVars>>

\* The holder of the guard reads a field of the Config.
ReadField ==
    /\ cfg_reader.pc = "reading"
    /\ \E f \in ConfigFields \ DOMAIN cfg_reader.seen :
          cfg_reader' = [cfg_reader EXCEPT !.seen = (f :> config[f]) @@ @]
    /\ UNCHANGED <<cfg_file, cfg_lock, cfg_writer, cfg_last, cfg_installed,
                   cfg_events>>
    /\ UNCHANGED <<renderVars, storeVars, cacheVars, swapVars, urlVars, cssVars,
                   fixVars, pdfVars, rstVars>>

\* The guard is dropped.
DropGuard ==
    /\ cfg_reader.pc = "reading"
    /\ cfg_lock' = [cfg_lock EXCEPT !.readers = @ - 1]
    /\ cfg_reader' = [pc |-> "idle"]
    /\ UNCHANGED <<cfg_file, cfg_writer, cfg_last, cfg_installed, cfg_events>>
    /\ UNCHANGED <<renderVars, storeVars, cacheVars, swapVars, urlVars, cssVars,
                   fixVars, pdfVars, rstVars>>

CfgInit ==
    /\ page \in {[n |-> 0, parent |-> <<>>, elem |-> <<>>]}
    /\ debug = FALSE
    /\ ctx = <<>>
    /\ config = Config_empty
    /\ stack = <<>>
    /\ rendered_body = <<>>
    /\ next_root = 1
    /\ rendered_page = NewRenderedPage
    /\ returned = NotReturned
    /\ render_log = <<>>
    /\ stores = RenderStores
    /\ call = IdleCall
    /\ CacheIdle
    /\ SwapIdle /\ UrlIdle /\ CssIdle /\ FixIdle /\ RstIdle /\ PdfIdle
    /\ cfg_file \in FileStates
    /\ cfg_lock = [writer |-> FALSE, readers |-> 0]
    /\ cfg_writer = [pc |-> "idle"]
    /\ cfg_reader = [pc |-> "idle"]
    /\ cfg_last = None
    /\ cfg_installed = <<>>
    /\ cfg_events = 0

CfgNext ==
    \/ EditFile
    \/ LoadConfig
    \/ WatchEvent
    \/ WriteLock
    \/ Assign
    \/ GetConfig
    \/ ReadField
    \/ DropGuard

SpecCfg == CfgInit /\ [][CfgNext]_vars

\* The Config the last completed assignment installed.
CurrentConfig ==
    IF cfg_installed = <<>> THEN Config_empty
    ELSE cfg_installed[Len(cfg_installed)]

\* The whole configurations: the empty one and every result of a parse.
WholeConfigs == {Config_empty} \cup FileConfigs

\* The last load or watcher event did not get a Config out of the file.
LastFailed ==
    /\ cfg_last.some
    /\ cfg_last.value.read.some => ~cfg_last.value.read.value.ok

\* C19: what get_config() shows is one whole configuration, the empty one
\* or the result of one parse, never a mixture: the fields a holder of the
\* guard has read are those of one whole configuration, the one installed
\* last.  A load or reload whose read or parse failed, and a watcher event
\* other than close-after-write, leave the Config as it was.
C19_WholeConfig ==
    /\ cfg_reader.pc = "reading" =>
          /\ \E c \in WholeConfigs :
                \A f \in DOMAIN cfg_reader.seen : cfg_reader.seen[f] = c[f]
          /\ \A f \in DOMAIN cfg_reader.seen :
                cfg_reader.seen[f] = CurrentConfig[f]
    /\ ~cfg_lock.writer => config = CurrentConfig /\ config \in WholeConfigs
    /\ (LastFailed /\ cfg_writer.pc = "idle") => config = cfg_last.value.before

\* A reader holds the guard, having read both fields of a configuration a
\* reload installed over an earlier one, after a later reload by the watcher
\* found a file it could not parse.
C19_Witness ==
    /\ cfg_reader.pc = "reading"
    /\ DOMAIN cfg_reader.seen = ConfigFields
    /\ Len(cfg_installed) = 2
    /\ cfg_installed[1] # cfg_installed[2]
    /\ LastFailed
    /\ cfg_last.value.source = "watcher"
    /\ cfg_file = Garbage

(***************************************************************************)
(* The restart manager (restart.rs) and the server it runs (main.rs,       *)
(* server/api.rs start_with_shutdown).  A server task first builds its     *)
(* renderer, then serves until server.run ends or its shutdown receiver    *)
(* yields.  restart_notify is a tokio Notify: notify_one stores one permit *)
(* when nobody waits, however often it is called.                          *)
(***************************************************************************)

\* What run_with_restart does not touch.
notRstVars == <<page, debug, ctx, stack, rendered_body, next_root,
                rendered_page, returned, render_log, storeVars, cacheVars,
                swapVars, urlVars, cssVars, fixVars, pdfVars, cfgVars>>

\* The server task spawned last.
Current == rst_servers[Len(rst_servers)]

\* The server tasks that have not finished.
Running == {i \in 1..Len(rst_servers) : rst_servers[i].state # "finished"}

RstDid(event) == rst_log' = Append(rst_log, event)

Notify_notify_one_Queued(notify) ==
    IF notify.waiter = "waiting" THEN [notify EXCEPT !.waiter = "notified"]
    ELSE [notify EXCEPT !.permits = @ + 1]

\* Notify::notify_one: a task waiting in notified() is woken; without one a
\* single permit is stored, however many there were.
Notify_notify_one(notify) ==
    IF notify.waiter = "waiting" THEN [notify EXCEPT !.waiter = "notified"]
    ELSE [notify EXCEPT !.permits = 1]

\* enable_restart_with_signal's task, on SIGHUP: restart_notify.notify_one().
Sighup ==
    /\ rst_pc \notin {"idle", "returned"}
    /\ rst_signals < MaxRestarts
    /\ rst_signals' = rst_signals + 1
    /\ rst_notify' = Notify_notify_one(rst_notify)
    /\ rst_since' = IF rst_notify.waiter = "waiting" THEN rst_since
                    ELSE rst_since + 1
    /\ UNCHANGED <<rst_pc, rst_servers, rst_taken, rst_log, config, notRstVars>>

\* run_with_restart, lines 73-86: the top of the loop subscribes a receiver
\* and spawns the server task; select! then polls notified(), which waits
\* when no permit is stored.
SpawnServer ==
    /\ rst_pc = "spawn"
    /\ rst_servers' = Append(rst_servers, [state |-> "starting", rx |-> 0])
    /\ RstDid([ev |-> "spawn", n |-> Len(rst_servers) + 1, running |-> Running])
    /\ rst_pc' = "select"
    /\ rst_notify' = IF rst_notify.permits = 0
                     THEN [rst_notify EXCEPT !.waiter = "waiting"]
                     ELSE rst_notify
    /\ UNCHANGED <<rstHist, config, notRstVars>>

\* The server task builds its renderer (main.rs): PageRenderer::new()
\* .with_stores(..)?, which may fail.
ServerStart ==
    /\ \E i \in 1..Len(rst_servers), ok \in BOOLEAN :
          /\ rst_servers[i].state = "starting"
          /\ rst_servers' = [rst_servers EXCEPT ![i] =
                IF ok THEN [@ EXCEPT !.state = "serving"]
                ELSE [state |-> "finished", rx |-> @.rx,
                      result |-> Err("server")]]
    /\ UNCHANGED <<rst_pc, rst_notify, rstHist, rst_log, config, notRstVars>>

\* start_with_shutdown's select!: server.run(app) ends, or the shutdown
\* receiver yields (a message was broadcast since it was subscribed); or
\* the task panics, which its JoinHandle reports as an error.
ServerEnd ==
    /\ \E i \in 1..Len(rst_servers),
          why \in {"run ok", "run failed", "shutdown", "panic"} :
          /\ rst_servers[i].state = "serving"
          /\ why = "shutdown" => rst_servers[i].rx > 0
          /\ rst_servers' = [rst_servers EXCEPT ![i] =
                [state |-> "finished", rx |-> @.rx,
                 result |-> IF why = "run failed" THEN Err("server")
                            ELSE IF why = "panic" THEN Err("panic")
                            ELSE Ok("()")]]
    /\ UNCHANGED <<rst_pc, rst_notify, rstHist, rst_log, config, notRstVars>>

\* broadcast::Sender::send: every receiver subscribed gets the message.
RestartManager_shutdown(servers) ==
    [i \in 1..Len(servers) |->
        IF servers[i].state # "finished"
        THEN [servers[i] EXCEPT !.rx = 1] ELSE servers[i]]

\* One more restart is taken, woken in the way by, for k deliveries.
Taken(by, k) ==
    [n |-> rst_taken.n + 1, used |-> rst_taken.used + k,
     last |-> Some([by |-> by, k |-> k])]

\* select!, lines 87-91: notified() completes, woken by notify_one or by
\* taking a stored permit, and the branch calls self.shutdown().
SelectRestart ==
    /\ rst_pc = "select"
    /\ rst_notify.waiter = "notified" \/ rst_notify.permits > 0
    /\ IF rst_notify.waiter = "notified"
       THEN /\ rst_notify' = [rst_notify EXCEPT !.waiter = "none"]
            /\ rst_taken' = Taken("waiter", 1)
            /\ UNCHANGED rst_since
       ELSE /\ rst_notify' = [permits |-> rst_notify.permits - 1,
                              waiter |-> "none"]
            /\ rst_taken' = Taken("permit", rst_since)
            /\ rst_since' = 0
    /\ rst_servers' = RestartManager_shutdown(rst_servers)
    /\ RstDid([ev |-> "shutdown", n |-> Len(rst_servers)])
    /\ rst_pc' = "await"
    /\ UNCHANGED <<rst_signals, config, notRstVars>>

JoinHandle_ready_Always(server) == TRUE

\* server_task.await completes: the task has finished.
JoinHandle_ready(server) == server.state = "finished"

\* match server_task.await, lines 94-105.
AwaitServer ==
    /\ rst_pc = "await"
    /\ JoinHandle_ready(Current)
    /\ RstDid([ev |-> "joined", n |-> Len(rst_servers)])
    /\ rst_pc' = "reload"
    /\ UNCHANGED <<rst_notify, rst_servers, rstHist, config, notRstVars>>

\* config::reload_config(): the file is read and parsed again; on success
\* the Config is replaced, on failure the previous one is retained.
config_reload_config(file, current) ==
    LET r == Config_read(file)
    IN  [result |-> IF r.ok THEN Ok("()") ELSE r,
         config |-> IF r.ok THEN r.value ELSE current]

\* The files a reload can find at a restart.
ReloadFiles == {Garbage, YamlOf([debug |-> TRUE, port |-> 1])}

\* A reload whose failure ends run_with_restart.
ReloadBeforeRestart_Propagate ==
    /\ rst_pc = "reload"
    /\ \E file \in ReloadFiles :
          LET r == config_reload_config(file, config)
          IN  /\ config' = r.config
              /\ RstDid([ev |-> "reload", ok |-> r.result.ok,
                         before |-> config, after |-> r.config])
              /\ rst_pc' = IF r.result.ok THEN "spawn" ELSE "returned"
    /\ UNCHANGED <<rst_notify, rst_servers, rstHist, notRstVars>>

\* lines 108-113: the reload, whose failure is only logged; then the loop
\* iterates.
ReloadBeforeRestart ==
    /\ rst_pc = "reload"
    /\ \E file \in ReloadFiles :
          LET r == config_reload_config(file, config)
          IN  /\ config' = r.config
              /\ RstDid([ev |-> "reload", ok |-> r.result.ok,
                         before |-> config, after |-> r.config])
    /\ rst_pc' = "spawn"
    /\ UNCHANGED <<rst_notify, rst_servers, rstHist, notRstVars>>

RunResult_Ok(joined) == Ok("()")

\* match result, lines 116-129: what run_with_restart returns for the
\* outcome of the server task.
RunResult(joined) ==
    IF joined.ok THEN Ok("()")
    ELSE IF joined.error = "panic" THEN Err("Server task panicked")
    ELSE joined

\* select!, lines 115-130: the server task completed; run_with_restart
\* returns.  The Notified future is dropped: a wake-up it had received and
\* not used goes back to the Notify.
SelectServer ==
    /\ rst_pc = "select"
    /\ Current.state = "finished"
    /\ RstDid([ev |-> "return", n |-> Len(rst_servers),
               result |-> RunResult(Current.result)])
    /\ rst_pc' = "returned"
    /\ rst_notify' = IF rst_notify.waiter = "notified"
                     THEN [permits |-> 1, waiter |-> "none"]
                     ELSE [rst_notify EXCEPT !.waiter = "none"]
    /\ rst_since' = IF rst_notify.waiter = "notified" THEN rst_since + 1
                    ELSE rst_since
    /\ UNCHANGED <<rst_servers, rst_signals, rst_taken, config, notRstVars>>

RstInit ==
    /\ page \in {[n |-> 0, parent |-> <<>>, elem |-> <<>>]}
    /\ debug = FALSE
    /\ ctx = <<>>
    /\ config = Config_empty
    /\ stack = <<>>
    /\ rendered_body = <<>>
    /\ next_root = 1
    /\ rendered_page = NewRenderedPage
    /\ returned = NotReturned
    /\ render_log = <<>>
    /\ stores = RenderStores
    /\ call = IdleCall
    /\ CacheIdle
    /\ SwapIdle /\ UrlIdle /\ CssIdle /\ FixIdle /\ CfgIdle /\ PdfIdle
    /\ rst_pc = "spawn"
    /\ rst_notify = [permits |-> 0, waiter |-> "none"]
    /\ rst_servers = <<>>
    /\ rst_signals = 0
    /\ rst_since = 0
    /\ rst_taken = [n |-> 0, used |-> 0, last |-> None]
    /\ rst_log = <<>>

RstNext ==
    \/ Sighup
    \/ SpawnServer
    \/ ServerStart
    \/ ServerEnd
    \/ SelectRestart
    \/ AwaitServer
    \/ ReloadBeforeRestart
    \/ SelectServer

SpecRst == RstInit /\ [][RstNext]_vars

\* C20: a restart is handled in the order shutdown broadcast, server task
\* joined, configuration reload attempted, next server task spawned: every
\* spawn but the first comes right after a reload attempt, which comes right
\* after the join of the task spawned before, which comes right after the
\* broadcast; no server task was running when the next was spawned, and at
\* most one server task is unfinished at any time.
C20_RestartOrder ==
    /\ Cardinality(Running) <= 1
    /\ \A j \in 1..Len(rst_log) :
          (rst_log[j].ev = "spawn" /\ rst_log[j].n > 1) =>
              /\ rst_log[j].running = {}
              /\ j >= 4
              /\ rst_log[j - 1].ev = "reload"
              /\ rst_log[j - 2] = [ev |-> "joined", n |-> rst_log[j].n - 1]
              /\ rst_log[j - 3] = [ev |-> "shutdown", n |-> rst_log[j].n - 1]
    /\ \A j \in 1..Len(rst_log) :
          rst_log[j].ev = "joined" => rst_log[j - 1].ev = "shutdown"

\* The third server task serves, after two restarts: one whose reload
\* failed, and one whose server task had ended with an error.
C20_Witness ==
    /\ Len(rst_servers) = 3
    /\ Current.state = "serving"
    /\ \E j \in 1..Len(rst_log) : rst_log[j].ev = "reload" /\ ~rst_log[j].ok
    /\ \E j \in 1..Len(rst_log) : rst_log[j].ev = "reload" /\ rst_log[j].ok
    /\ \E i \in 1..2 : ~rst_servers[i].result.ok

Returned == rst_pc = "returned"

ReturnEvent == rst_log[Len(rst_log)]

\* The result the caller is owed for the outcome joined of the server task.
Owed(joined) ==
    IF joined.ok THEN Ok("()")
    ELSE IF joined.error = "panic" THEN Err("Server task panicked")
    ELSE Err(joined.error)

\* C22 as stated: a server task that completes on its own ends the loop
\* with its result in every interleaving: a server task that was followed
\* by another one had been sent the shutdown before it finished.
C22_NeverSwallowed ==
    /\ \A i \in 1..(Len(rst_servers) - 1) : rst_servers[i].rx > 0
    /\ Returned => ReturnEvent.result = Owed(Current.result)

\* C22, amended: when select! takes the completion branch, run_with_restart
\* returns the result of the server task spawned last: Ok for Ok, the
\* server's error for an error, an error for a panic.  A server task is
\* followed by another one only through a restart that took a notification,
\* also when the task had completed on its own before the shutdown was
\* broadcast: its result is then logged, not returned.
C22_ReturnsOnSelect ==
    /\ Returned =>
          /\ ReturnEvent.ev = "return"
          /\ ReturnEvent.n = Len(rst_servers)
          /\ Current.state = "finished"
          /\ ReturnEvent.result = Owed(Current.result)
    /\ Len(rst_servers) >= 1 =>
          /\ Len(rst_servers) - 1 <= rst_taken.n
          /\ rst_taken.n <= Len(rst_servers)
    /\ \A i \in 1..(Len(rst_servers) - 1) :
          \E j \in 1..Len(rst_log) : rst_log[j] = [ev |-> "shutdown", n |-> i]

\* The first server task failed on its own while a SIGHUP was pending, the
\* restart branch won and started a second one; that one panicked, and
\* run_with_restart returned the error for the panic.
C22_Witness ==
    /\ Returned
    /\ Len(rst_servers) = 2
    /\ rst_servers[1].rx = 0 /\ ~rst_servers[1].result.ok
    /\ ReturnEvent.result = Err("Server task panicked")

\* C26: a reload that fails during a restart does not stop the service:
\* the failure is logged, the Config stays the one before the reload, and
\* the next server task is spawned all the same; run_with_restart returns
\* only through the completion branch, for a server task that no shutdown
\* was broadcast to.
C26_FailedReload ==
    /\ \A j \in 1..Len(rst_log) :
          rst_log[j].ev = "reload" =>
              /\ ~rst_log[j].ok => rst_log[j].after = rst_log[j].before
              /\ IF j < Len(rst_log)
                 THEN /\ rst_log[j + 1].ev = "spawn"
                      /\ rst_log[j + 1].n = Cardinality({i \in 1..j :
                                                   rst_log[i].ev = "spawn"}) + 1
                 ELSE rst_pc = "spawn" /\ config = rst_log[j].after
    /\ Returned =>
          /\ ReturnEvent.ev = "return"
          /\ Current.state = "finished"
          /\ Current.rx = 0

\* The third server task serves with the configuration of the first
\* restart's reload, the reload of the second restart having failed.
C26_Witness ==
    /\ Len(rst_servers) = 3
    /\ Current.state = "serving"
    /\ config = [debug |-> TRUE, port |-> 1]
    /\ \E j \in 1..Len(rst_log), k \in 1..Len(rst_log) :
          /\ j < k
          /\ rst_log[j].ev = "reload" /\ rst_log[j].ok
          /\ rst_log[k].ev = "reload" /\ ~rst_log[k].ok
          /\ rst_log[k].before = [debug |-> TRUE, port |-> 1]

(***************************************************************************)
(* render_page_file (main.rs) while the file watcher is active.  The task  *)
(* takes the read guard of the Config with get_config() and keeps it in a  *)
(* local until it returns; the rendering pass it awaits calls get_debug()  *)
(* for every element whose widget failed to render.  cfg_reader is that    *)
(* task; the watcher's reloads are the writer of the config section.       *)
(***************************************************************************)
MaxFileElements == 2

\* RwLock::read().await completes on tokio's lock, which queues its waiters
\* in arrival order: not while a writer holds the lock, and not while a
\* writer waits for it.
RwLock_read_Queued(lock, writer) == ~lock.writer /\ writer.pc # "wait"

\* let config = get_config().await, main.rs line 92.
RenderPageFile_get_config ==
    /\ cfg_reader.pc = "idle"
    /\ RwLock_read_Queued(cfg_lock, cfg_writer)
    /\ cfg_lock' = [cfg_lock EXCEPT !.readers = @ + 1]
    /\ \E n \in 1..MaxFileElements :
          cfg_reader' = [pc |-> "render", left |-> n, errors |-> 0]
    /\ UNCHANGED <<cfg_file, cfg_writer, cfg_last, cfg_installed, cfg_events>>
    /\ UNCHANGED <<renderVars, storeVars, cacheVars, swapVars, urlVars, cssVars,
                   fixVars, pdfVars, rstVars>>

\* render_element up to the match on the result of render_widget: the widget
\* rendered, or it failed and get_debug() is called.
RenderPageFile_render_element ==
    /\ cfg_reader.pc = "render"
    /\ cfg_reader.left > 0
    /\ \E rendered \in BOOLEAN :
          cfg_reader' = IF rendered THEN [cfg_reader EXCEPT !.left = @ - 1]
                        ELSE [cfg_reader EXCEPT !.pc = "get_debug"]
    /\ UNCHANGED <<cfg_file, cfg_lock, cfg_writer, cfg_last, cfg_installed,
                   cfg_events>>
    /\ UNCHANGED <<renderVars, storeVars, cacheVars, swapVars, urlVars, cssVars,
                   fixVars, pdfVars, rstVars>>

\* get_debug() is granted the lock, reads config.debug and drops its guard;
\* with debug the error is kept and the pass goes on, without it the pass
\* fails, render_page_file returns and its own guard is dropped.
RenderPageFile_get_debug ==
    /\ cfg_reader.pc = "get_debug"
    /\ RwLock_read_Queued(cfg_lock, cfg_writer)
    /\ IF config.debug
       THEN /\ cfg_reader' = [pc |-> "render", left |-> cfg_reader.left - 1,
                              errors |-> cfg_reader.errors + 1]
            /\ UNCHANGED cfg_lock
       ELSE /\ cfg_reader' = [pc |-> "failed"]
            /\ cfg_lock' = [cfg_lock EXCEPT !.readers = @ - 1]
    /\ UNCHANGED <<cfg_file, cfg_writer, cfg_last, cfg_installed, cfg_events>>
    /\ UNCHANGED <<renderVars, storeVars, cacheVars, swapVars, urlVars, cssVars,
                   fixVars, pdfVars, rstVars>>

\* The pass is over: the body is printed, render_page_file returns and the
\* guard is dropped.
RenderPageFile_return ==
    /\ cfg_reader.pc = "render"
    /\ cfg_reader.left = 0
    /\ cfg_reader' = [pc |-> "done", errors |-> cfg_reader.errors]
    /\ cfg_lock' = [cfg_lock EXCEPT !.readers = @ - 1]
    /\ UNCHANGED <<cfg_file, cfg_writer, cfg_last, cfg_installed, cfg_events>>
    /\ UNCHANGED <<renderVars, storeVars, cacheVars, swapVars, urlVars, cssVars,
                   fixVars, pdfVars, rstVars>>

GuardNext ==
    \/ EditFile
    \/ WatchEvent
    \/ WriteLock
    \/ Assign
    \/ RenderPageFile_get_config
    \/ RenderPageFile_render_element
    \/ RenderPageFile_get_debug
    \/ RenderPageFile_return

SpecGuard == CfgInit /\ [][GuardNext]_vars

\* The task waits for the config lock.
WaitsForLock ==
    cfg_reader.pc = "get_debug" /\ ~RwLock_read_Queued(cfg_lock, cfg_writer)

\* C25: config reads and reloads never deadlock: no task waits for the
\* config lock while it holds a read guard on it, so a reload that waits
\* for the write lock is never waited for by the holder of the guard it
\* waits for.
C25_NoDeadlock ==
    ~(/\ WaitsForLock
      /\ cfg_lock.readers > 0
      /\ cfg_writer.pc = "wait"
      /\ ~RwLock_write(cfg_lock))

(***************************************************************************)
(* The page-storing backends behind the Store trait (store/traits.rs):     *)
(* the file store (store/file.rs) and the db store (store/db.rs), a table  *)
(* pages(path PRIMARY KEY, data JSON).  stores holds the one backend       *)
(* under test, [kind, store], and call the last operation made on it.      *)
(***************************************************************************)
\* The row data serde_json::to_string(page) writes.
JsonRow(p) == [valid |-> TRUE, page |-> p]

\* SELECT data FROM pages WHERE path = ?: no row is logged and answered by
\* None, a row is parsed.
DbStore_load_page_definition(db, path) ==
    IF path \notin DOMAIN db.rows THEN Ok(None)
    ELSE IF ~db.rows[path].valid THEN Err("JsonError")
    ELSE Ok(Some(db.rows[path].page))

\* INSERT OR REPLACE INTO pages (path, data)
DbStore_save_page_definition(db, path, p) ==
    [db EXCEPT !.rows =
        [q \in DOMAIN db.rows \cup {path} |->
            IF q = path THEN JsonRow(p) ELSE db.rows[q]]]

\* The default method of the Store trait, which the db store does not
\* override.
Store_delete_page_definition(store, path) ==
    [result |-> Err("Not implemented"), store |-> store]

\* The calls through dyn Store: [result, store].
Store_load(b, path) ==
    IF b.kind = "file" THEN FileStore_load_page_definition(b.store, path)
    ELSE DbStore_load_page_definition(b.store, path)

Store_save(b, path, p) ==
    IF b.kind = "file"
    THEN [result |-> Ok("()"),
          store  |-> FileStore_save_page_definition(b.store, path, p)]
    ELSE [result |-> Ok("()"),
          store  |-> DbStore_save_page_definition(b.store, path, p)]

Store_delete(b, path) ==
    IF b.kind = "file" THEN FileStore_delete_page_definition(b.store, path)
    ELSE Store_delete_page_definition(b.store, path)

\* Local paths without a directory part, and the pages saved under them.
LocalPaths == {<<"a">>, <<"b">>}
LocalPages == {FedPage(<<"a">>), NewPage}

\* The backends at the start: a file store with or without the pages tag
\* and a db store, each empty or holding a page at a.
BackendRoot == <<"dir">>

Backends ==
    { [kind |-> "file",
       store |-> [path |-> BackendRoot, has_widgets |-> FALSE,
                  has_pages |-> hp, widgets |-> <<>>, files |-> files]] :
        hp \in BOOLEAN,
        files \in {<<>>,
                   PathJoin(BackendRoot, <<"a", Yaml>>)
                       :> PageFile(FedPage(<<"a">>))} }
    \cup
    { [kind |-> "db", store |-> [name |-> "db", rows |-> rows]] :
        rows \in {<<>>, <<"a">> :> JsonRow(FedPage(<<"a">>))} }

BackendDid(op, path, p, r) ==
    /\ call' = [op |-> op, path |-> path, page |-> p, result |-> r.result,
                before |-> stores]
    /\ stores' = [stores EXCEPT !.store = r.store]

BackendLoad ==
    /\ \E path \in LocalPaths :
          BackendDid("load", path, None,
                     [result |-> Store_load(stores, path),
                      store |-> stores.store])
    /\ UNCHANGED <<renderVars, cacheVars, extVars>>

BackendSave ==
    /\ \E path \in LocalPaths, p \in LocalPages :
          BackendDid("save", path, Some(p), Store_save(stores, path, p))
    /\ UNCHANGED <<renderVars, cacheVars, extVars>>

BackendDelete ==
    /\ \E path \in LocalPaths :
          BackendDid("delete", path, None, Store_delete(stores, path))
    /\ UNCHANGED <<renderVars, cacheVars, extVars>>

BackendInit ==
    /\ stores \in Backends
    /\ call = IdleCall
    /\ RenderIdle
    /\ CacheIdle
    /\ ExtIdle

BackendNext ==
    \/ BackendLoad
    \/ BackendSave
    \/ BackendDelete

SpecBackend == BackendInit /\ [][BackendNext]_vars

\* The backend stores pages: the db store, or a file store with the pages tag.
PageStoring(b) == b.kind = "db" \/ b.store.has_pages

\* Something is stored at path in backend b.
StoredAt(b, path) ==
    IF b.kind = "file" THEN FileName(b.store, path) \in DOMAIN b.store.files
    ELSE path \in DOMAIN b.store.rows

\* C23: on every page-storing backend a load after save_page_definition
\* returns the page saved last; delete_page_definition returns true iff a
\* page was stored at the path right before the call, and a load after it
\* returns None.
C23_StorageContract ==
    PageStoring(stores) =>
        /\ call.op = "save" =>
              Store_load(stores, call.path) = Ok(call.page)
        /\ call.op = "delete" =>
              /\ call.result = Ok(StoredAt(call.before, call.path))
              /\ Store_load(stores, call.path) = Ok(None)

(***************************************************************************)
(* Widget listing (Store::get_widget_list and its federation).  stores     *)
(* maps each configured store to [kind, store]: a file store, the code     *)
(* store, or a db store, which lists through the trait's default method.   *)
(***************************************************************************)
\* FileStore::get_widget_list; order is the order in which the HashMap of
\* widgets yields its values.
FileStore_get_widget_list(store, order) ==
    IF ~store.has_widgets THEN [count |-> 0, results |-> <<>>]
    ELSE [count   |-> Cardinality(DOMAIN store.widgets),
          results |-> [i \in 1..Len(order) |-> store.widgets[order[i]]]]

\* CodeStore::get_widget_list
CodeStore_get_widget_list ==
    [count   |-> 1,
     results |-> <<CodeWidget(<<"static_context">>),
                   CodeWidget(<<"url_context">>)>>]

\* Store::get_widget_list, the default method.
Store_get_widget_list == [count |-> 0, results |-> <<>>]

\* store.get_widget_list() through dyn Store.
Backend_get_widget_list(b, order) ==
    IF b.kind = "file" THEN FileStore_get_widget_list(b.store, order)
    ELSE IF b.kind = "code" THEN CodeStore_get_widget_list
    ELSE Store_get_widget_list

\* The loop body of the federation on one widget: the name is qualified by
\* the store, html and css are emptied.
Qualified(w, store_name) ==
    [w EXCEPT !.name = store_name \o <<"/">> \o w.name,
              !.html = "", !.css = ""]

\* The loop of StoreFactory::get_widget_list over the stores in the order
\* names.
RECURSIVE ListWidgets(_, _, _, _)
ListWidgets(sts, names, orders, acc) ==
    IF names = <<>> THEN acc
    ELSE LET store_name   == Head(names)
             store_result == Backend_get_widget_list(sts[store_name],
                                                     orders[store_name])
         IN  ListWidgets(sts, Tail(names), orders,
                 [count   |-> acc.count + store_result.count,
                  results |-> acc.results \o
                      [i \in 1..Len(store_result.results) |->
                          Qualified(store_result.results[i], store_name)],
                  calls   |-> Append(acc.calls,
                      [store |-> store_name, result |-> store_result])])

StoreFactory_get_widget_list(sts, names, orders) ==
    ListWidgets(sts, names, orders,
                [count |-> 0, results |-> <<>>, calls |-> <<>>])

\* The widgets a file store of the listing may hold.
ListedWidgets == {<<"w1">>, <<"w2">>, <<"w3">>}

WidgetBackends(name) ==
    IF name = <<"code">> THEN {[kind |-> "code"]}
    ELSE IF name = <<"db">> THEN {[kind |-> "db"]}
    ELSE { [kind |-> "file",
            store |-> [path |-> FedRoot(name), has_widgets |-> hw,
                       has_pages |-> FALSE,
                       widgets |-> [w \in ws |-> FedWidget(name, w)],
                       files |-> <<>>]] :
             hw \in BOOLEAN, ws \in SUBSET ListedWidgets }

\* The federations: file store a, with or without the code store and a db
\* store.
WidgetFederations ==
    UNION { {f \in [{<<"a">>} \cup extra -> UNION {WidgetBackends(n) :
                                            n \in {<<"a">>} \cup extra}] :
                \A n \in DOMAIN f : f[n] \in WidgetBackends(n)} :
            extra \in SUBSET {<<"code">>, <<"db">>} }

\* The orders in which a backend's widgets can be gone through.
WidgetOrders(b) ==
    IF b.kind = "file" THEN Orders(DOMAIN b.store.widgets) ELSE {<<>>}

CallGetWidgetList ==
    /\ call.op = "none" \/ call.op = "get_widget_list"
    /\ \E names \in Orders(DOMAIN stores) :
       \E orders \in [DOMAIN stores -> UNION {WidgetOrders(stores[n]) :
                                                 n \in DOMAIN stores}] :
          /\ \A n \in DOMAIN stores : orders[n] \in WidgetOrders(stores[n])
          /\ LET r == StoreFactory_get_widget_list(stores, names, orders)
             IN  call' = [op |-> "get_widget_list",
                          result |-> [count |-> r.count, results |-> r.results],
                          calls |-> r.calls, before |-> stores]
    /\ UNCHANGED <<stores, renderVars, cacheVars, extVars>>

WidgetsInit ==
    /\ stores \in WidgetFederations
    /\ call = IdleCall
    /\ RenderIdle
    /\ CacheIdle
    /\ ExtIdle

WidgetsNext == CallGetWidgetList

SpecWidgets == WidgetsInit /\ [][WidgetsNext]_vars

\* C29: in every widget listing count is the number of items returned: in
\* each backend's answer, the code store's two built-ins included, and in
\* the federation's, whose count is the sum of the backends' counts and
\* whose items are named "<store>/<widget>" with empty html and css.
C29_WidgetCount ==
    call.op = "get_widget_list" =>
        /\ \A i \in 1..Len(call.calls) :
              call.calls[i].result.count = Len(call.calls[i].result.results)
        /\ call.result.count = Len(call.result.results)
        /\ call.result.count = SumCounts(call.calls)
        /\ \A i \in 1..Len(call.result.results) :
              LET w == call.result.results[i]
              IN  /\ w.html = "" /\ w.css = ""
                  /\ \E j \in 1..Len(call.calls) :
                     \E k \in 1..Len(call.calls[j].result.results) :
                        w.name = call.calls[j].store \o <<"/">>
                                    \o call.calls[j].result.results[k].name

(***************************************************************************)
(* PDF export (renderer/pdf.rs).  pdf.fs is what temp_dir holds: whether   *)
(* the directory exists, page.html and output.pdf; pdf.cwd is the working  *)
(* directory of the process, which every task shares.  A call suspends at  *)
(* one point, the wait for the browser process; what it does before and    *)
(* after is one step each.  pdf.cwd is "home", the directory the process   *)
(* was started in, "temp", or "gone": temp_dir as it was before it was     *)
(* removed.                                                                *)
(***************************************************************************)
MaxPdfCalls == 2

\* The HTML document of the page task t exports, and the PDF the browser
\* prints for a document.
HtmlOf(t) == <<"html of", t>>
PdfOf(html) == <<"pdf of", html[2]>>

PdfCallsStarted ==
    Len(pdf.done) + Cardinality({t \in Tasks : pdf.task[t].pc # "idle"})

\* render_pdf up to the wait for the browser, lines 13-46: without a pdf
\* section in the Config the call returns at once; otherwise temp_dir is
\* created, the working directory is saved and changed to temp_dir,
\* page.html is written and the browser is started.  current_dir() fails
\* when the working directory is a directory that was removed.
PdfStart ==
    /\ PdfCallsStarted < MaxPdfCalls
    /\ \E t \in Tasks, enabled \in BOOLEAN :
          /\ pdf.task[t].pc = "idle"
          /\ IF ~enabled
             THEN pdf' = [pdf EXCEPT !.done = Append(@,
                            [task |-> t, html |-> HtmlOf(t), browser |-> "none",
                             result |-> Err("PDF generation not enabled")])]
             ELSE IF pdf.cwd = "gone"
             THEN pdf' = [pdf EXCEPT
                            !.fs.dir = TRUE,
                            !.done = Append(@,
                               [task |-> t, html |-> HtmlOf(t),
                                browser |-> "none",
                                result |-> Err("current_dir")])]
             ELSE pdf' = [pdf EXCEPT
                            !.fs = [dir |-> TRUE, html |-> Some(HtmlOf(t)),
                                    out |-> pdf.fs.out],
                            !.cwd = "temp",
                            !.task[t] = [pc |-> "browser", cwd |-> pdf.cwd]]
    /\ UNCHANGED <<renderVars, storeVars, cacheVars, swapVars, urlVars, cssVars,
                   fixVars, cfgVars, rstVars>>

\* The browser process of task t: it cannot be started, or it runs and
\* prints the page.html it finds to output.pdf in temp_dir, or it runs and
\* prints nothing (it crashed, or page.html or temp_dir is gone).
PdfBrowser ==
    /\ \E t \in Tasks, outcome \in {"spawn failed", "printed", "crashed"} :
          /\ pdf.task[t].pc = "browser"
          /\ LET prints == /\ outcome = "printed"
                           /\ pdf.fs.dir
                           /\ pdf.fs.html.some
             IN  pdf' = [pdf EXCEPT
                            !.fs.out = IF prints
                                       THEN Some(PdfOf(pdf.fs.html.value))
                                       ELSE @,
                            !.task[t] = [pc |-> "exited", cwd |-> @.cwd,
                                         browser |-> outcome]]
    /\ UNCHANGED <<renderVars, storeVars, cacheVars, swapVars, urlVars, cssVars,
                   fixVars, cfgVars, rstVars>>

\* render_pdf after the wait, lines 46-66, each step returning its error:
\* [fs, cwd, result].
render_pdf_after(fs, cwd, task) ==
    IF task.browser = "spawn failed"
    THEN [fs |-> fs, cwd |-> cwd, result |-> Err("spawn")]
    ELSE IF ~fs.out.some
    THEN [fs |-> fs, cwd |-> cwd, result |-> Err("read output.pdf")]
    ELSE IF ~fs.html.some
    THEN [fs |-> fs, cwd |-> cwd, result |-> Err("remove page.html")]
    ELSE IF task.cwd = "temp"
    THEN [fs |-> EmptyTemp, cwd |-> IF cwd = "temp" THEN "gone" ELSE cwd,
          result |-> Err("set_current_dir")]
    ELSE [fs |-> EmptyTemp, cwd |-> task.cwd, result |-> Ok(fs.out.value)]

PdfFinish ==
    /\ \E t \in Tasks :
          /\ pdf.task[t].pc = "exited"
          /\ LET r == render_pdf_after(pdf.fs, pdf.cwd, pdf.task[t])
             IN  pdf' = [fs |-> r.fs, cwd |-> r.cwd,
                         task |-> [pdf.task EXCEPT ![t] = IdleTask],
                         done |-> Append(pdf.done,
                            [task |-> t, html |-> HtmlOf(t),
                             browser |-> pdf.task[t].browser,
                             result |-> r.result])]
    /\ UNCHANGED <<renderVars, storeVars, cacheVars, swapVars, urlVars, cssVars,
                   fixVars, cfgVars, rstVars>>

PdfInit ==
    /\ PdfIdle
    /\ CssIdle /\ FixIdle /\ CfgIdle /\ RstIdle
    /\ SwapIdle /\ UrlIdle
    /\ RenderIdle
    /\ CacheIdle
    /\ stores = <<>>
    /\ call = IdleCall

PdfNext ==
    \/ PdfStart
    \/ PdfBrowser
    \/ PdfFinish

SpecPdf == PdfInit /\ [][PdfNext]_vars

\* C30: concurrent PDF exports do not interfere: a call that returns a PDF
\* returns the one of its own page, a call whose browser printed does not
\* fail, and once no call is under way the temporary files are gone and the
\* working directory is the one the process had before the calls.
C30_NoInterference ==
    /\ \A i \in 1..Len(pdf.done) :
          LET c == pdf.done[i]
          IN  /\ c.result.ok => c.result.value = PdfOf(c.html)
              /\ c.browser = "printed" => c.result.ok
    /\ (pdf.done # <<>> /\ \A t \in Tasks : pdf.task[t].pc = "idle") =>
          /\ pdf.fs.html = None
          /\ pdf.fs.out = None
          /\ pdf.cwd = "home"

====
